---- MODULE Spec2Model ----
(***************************************************************************)
(* Round-up pipeline of elmgives-api: the consumer that drains the         *)
(* from-signer queue (get / handleResponseFromAws /                        *)
(* extractTransactionChainFromMessage / verifySign /                       *)
(* checkTransactionPayload), the chain builder, the worker that queries    *)
(* the aggregator and feeds the to-signer queue (RoundAndSend) and the     *)
(* scheduler that starts it (roundup/trigger.js), modelled as state        *)
(* machines whose steps are the callbacks the Node event loop runs to      *)
(* completion.  Each part has its own specification; the variables of the  *)
(* other parts stay as they are.                                           *)
(***************************************************************************)
EXTENDS Integers, Sequences, FiniteSets, Bags, TLC

(***************************************************************************)
(* Bounds of the model.                                                    *)
(***************************************************************************)
MaxQueue == 2         \* messages waiting on the queue when the consumer starts
MaxBatch == 2         \* messages one receiveMessage call may return
MaxTasks == 2         \* messages handed to extractTransactionChainFromMessage
MaxChainTxs == 2      \* transactions in one batch given to the chain builder
MaxItems == 2         \* work items given to the worker
MaxUsers == 11        \* users one scheduler run selects
MaxDailyUsers == 2    \* users selected when the scheduler runs again
MaxRuns == 2          \* scheduler runs on one calendar day
MaxDay == 4           \* days of the month that dates are taken from
MaxKeys == 3          \* keys of an object that is serialized
MaxCents == 250       \* amounts handed to roundup are -MaxCents..MaxCents

(***************************************************************************)
(* Keys.  A signature is modelled by the name of the key that made it;     *)
(* the public key that verifies it carries the same name.                  *)
(***************************************************************************)
SERVER_KEY == "kServer"
SIGNER_PUBLIC_KEY == "kSigner"
OTHER_KEY == "kOther"

ROUNDUP_CONCURRENCY == 10

Addresses == {"A1"}
AddressKey == [a \in Addresses |-> "kA1"]
GenesisHash == "h0"

(***************************************************************************)
(* Chain entries and envelopes that can arrive on the from-signer queue.   *)
(***************************************************************************)
Tx(h, c, k) == [hash |-> h, count |-> c, sigs |-> <<k>>, hashOk |-> TRUE]
NoTx == [hash |-> "none", count |-> -1, sigs |-> <<>>, hashOk |-> FALSE]

Envelope(a, ph, pc, txs, sigs, ok) ==
    [address |-> a, prevHash |-> ph, prevCount |-> pc,
     transactions |-> txs, sigs |-> sigs, hashOk |-> ok]

Messages ==
    {"E1", "E12", "EbadInner", "EbadOuter", "EbadHash", "EoneSig",
     "EnoLatest", "EnoAddr", "Mnobody", "Mgarbage", "Mnopayload"}

\* what message.Body holds: "json" a serialized envelope, "nopayload" JSON
\* without a payload member, "garbage" text that does not parse, "none" no Body
BodyKind(m) ==
    CASE m = "Mnobody" -> "none"
      [] m = "Mgarbage" -> "garbage"
      [] m = "Mnopayload" -> "nopayload"
      [] OTHER -> "json"

BodyOf(m) ==
    CASE m = "E1" ->
           Envelope("A1", "h0", 0, <<Tx("h1", 1, "kA1")>>,
                    <<SERVER_KEY, SIGNER_PUBLIC_KEY>>, TRUE)
      [] m = "E12" ->
           Envelope("A1", "h0", 0, <<Tx("h1", 1, "kA1"), Tx("h2", 2, "kA1")>>,
                    <<SERVER_KEY, SIGNER_PUBLIC_KEY>>, TRUE)
      [] m = "EbadInner" ->
           Envelope("A1", "h0", 0, <<Tx("h1", 1, OTHER_KEY)>>,
                    <<SERVER_KEY, SIGNER_PUBLIC_KEY>>, TRUE)
      [] m = "EbadOuter" ->
           Envelope("A1", "h0", 0, <<Tx("h1", 1, "kA1")>>,
                    <<SERVER_KEY, OTHER_KEY>>, TRUE)
      [] m = "EbadHash" ->
           Envelope("A1", "h0", 0, <<Tx("h1", 1, "kA1")>>,
                    <<SERVER_KEY, SIGNER_PUBLIC_KEY>>, FALSE)
      [] m = "EoneSig" ->
           Envelope("A1", "h0", 0, <<Tx("h1", 1, "kA1")>>,
                    <<SIGNER_PUBLIC_KEY>>, TRUE)
      [] m = "EnoLatest" ->
           Envelope("A1", "h0", 0, <<Tx("h2", 2, "kA1")>>,
                    <<SERVER_KEY, SIGNER_PUBLIC_KEY>>, TRUE)
      [] m = "EnoAddr" ->
           Envelope("AX", "h0", 0, <<Tx("h1", 1, "kA1")>>,
                    <<SERVER_KEY, SIGNER_PUBLIC_KEY>>, TRUE)
      [] OTHER ->
           Envelope("AX", "none", 0, <<>>, <<>>, FALSE)

HashValues == {"h0", "h1", "h2"}

CountOf(h) ==
    CASE h = "h0" -> 0
      [] h = "h1" -> 1
      [] h = "h2" -> 2
      [] OTHER -> -1

VARIABLES
    started,            \* get({firstRun: true}) has been called
    exited,             \* process.exit() has run
    emptyMessages,      \* the module-level counter
    receives,           \* receiveMessage calls whose answer is outstanding
    tasks,              \* one record per message given to extract...FromMessage
    queue,              \* messages on the from-signer queue (not deleted)
    latestTransaction,  \* Address.latestTransaction, per address
    rows,               \* transactions collection: rows per hash.value
    pendingUpserts,     \* saveTransaction updates issued, not yet landed
    runRecord,          \* "none", "issued" or "written"
    consecEmpty,        \* history: consecutive empty answers of receiveMessage
    tipLog,             \* history: tasks in the order they wrote the tip
    buildInput,         \* the arguments of the helper call that is studied:
                        \* transactionChain.create, setupDateOptions or sign
    buildOutput,        \* what the call settled with or returned
    assertThrows,       \* console.assert throws on a falsy value
    items,              \* the work items given to request(personData)
    _result,            \* the module-level response buffer of the worker
    plaidRecords,       \* the bag of the Plaid-transaction records
    chainEntries,       \* chain entries the worker has persisted
    addressTip,         \* Address.latestTransaction read by the worker
    toSigner,           \* envelopes on the to-signer queue
    users,              \* bag of the selected users and where each stands
    mapState,           \* the promise of P.map: idle, running, resolved, rejected
    runsLeft            \* calls of triggerRoundups still to come today

consumerVars == <<started, exited, emptyMessages, receives, tasks, queue,
                  latestTransaction, rows, pendingUpserts, runRecord,
                  consecEmpty, tipLog>>
chainVars == <<buildInput, buildOutput>>
workerVars == <<assertThrows, items, _result, plaidRecords, chainEntries,
                addressTip, toSigner>>
schedVars == <<users, mapState, runsLeft>>
vars == <<consumerVars, chainVars, workerVars, schedVars>>

\* the state of the parts a specification leaves out
NoBuild == [address |-> "none"]
NoOutput == [error |-> "pending", entries |-> <<>>]
ChainIdle == buildInput = NoBuild /\ buildOutput = NoOutput
WorkerIdle ==
    /\ assertThrows = FALSE
    /\ items = <<>>
    /\ _result = <<>>
    /\ plaidRecords = EmptyBag
    /\ chainEntries = {}
    /\ addressTip = <<"null">>
    /\ toSigner = <<>>
SchedIdle == users = EmptyBag /\ mapState = "idle" /\ runsLeft = 0
notConsumerVars == <<chainVars, workerVars, schedVars>>

Init ==
    /\ started = FALSE
    /\ exited = FALSE
    /\ emptyMessages = 0
    /\ receives = 0
    /\ tasks = <<>>
    /\ queue \in {q \in SUBSET Messages : Cardinality(q) <= MaxQueue}
    /\ latestTransaction = [a \in Addresses |-> GenesisHash]
    /\ rows = [h \in HashValues |-> IF h = GenesisHash THEN 1 ELSE 0]
    /\ pendingUpserts = {}
    /\ runRecord = "none"
    /\ consecEmpty = 0
    /\ tipLog = <<>>
    /\ ChainIdle
    /\ WorkerIdle
    /\ SchedIdle


(***************************************************************************)
(* Collaborators of the consumer whose code is outside the worked sources. *)
(***************************************************************************)
\* helpers/verifyJwsSignature: the hash recomputed over the payload must equal
\* hash.value and the last signature must verify under publicKey; never throws
verifySignature(obj, publicKey) ==
    /\ obj.hashOk
    /\ Len(obj.sigs) > 0
    /\ obj.sigs[Len(obj.sigs)] = publicKey

\* an update that inserts a document whatever the collection holds
updateTransaction_Insert(collection, h) == [collection EXCEPT ![h] = @ + 1]

\* transactions/chain/update: upsert by hash.value; the number of documents
\* with that hash.value after the update
updateTransaction(collection, h) ==
    [collection EXCEPT ![h] = IF @ = 0 THEN 1 ELSE @]

\* addresses/read: the Address document for the query, or none
NoAddress == [address |-> "none", public |-> "none"]
getAddress(a) ==
    IF a \in Addresses THEN [address |-> a, public |-> AddressKey[a]]
    ELSE NoAddress

(***************************************************************************)
(* Pure parts of the consumer's code.                                      *)
(***************************************************************************)
\* get(options): the counter after the call
getCounter(firstRun, em) == IF firstRun THEN 0 ELSE em + 1

\* handleResponseFromAws on an empty answer: exit or poll again
EmptyAnswerExits(em) == em > 2

\* checkTransactionPayload: the entry whose count equals
\* previous.payload.count + transactions.length (the forEach keeps the last one)
RECURSIVE latestFrom(_, _, _, _)
latestFrom(txs, comparison, i, found) ==
    IF i > Len(txs) THEN found
    ELSE latestFrom(txs, comparison, i + 1,
                    IF txs[i].count = comparison THEN txs[i] ELSE found)

\* a checkTransactionPayload that takes the first entry for the latest one
latestOf_FirstEntry(chain) ==
    IF chain.transactions = <<>> THEN NoTx ELSE chain.transactions[1]

latestOf(chain) ==
    latestFrom(chain.transactions,
               chain.prevCount + Len(chain.transactions), 1, NoTx)

TxHashes(chain) ==
    {chain.transactions[i].hash : i \in 1..Len(chain.transactions)}

\* a callback that goes on to verifySign whatever getAddress answered
AfterGetAddress_Proceed(address) == "verifySign"

\* getAddress(...).then: reject with address-not-found or call verifySign
AfterGetAddress(address) ==
    IF address = NoAddress \/ address.address = "none" THEN "catch"
    ELSE "verifySign"

\* a callback that runs checkTransactionPayload whatever the verdict was
AfterVerifySign_IgnoreVerdict(verified, chain) ==
    IF latestOf(chain) # NoTx THEN "verifyLatest"
    ELSE "deleteMessage"

\* verifySign's callback: reject, or run checkTransactionPayload, which either
\* verifies the latest entry or resolves at once
AfterVerifySign(verified, chain) ==
    IF ~verified THEN "catch"
    ELSE IF latestOf(chain) # NoTx THEN "verifyLatest"
    ELSE "deleteMessage"

\* a checkTransactionPayload that ignores the verdict on the latest entry
AfterVerifyLatest_IgnoreVerdict(verifiedLatest) == "updateAddress"

\* checkTransactionPayload's callback on the latest entry's verification
AfterVerifyLatest(verifiedLatest) ==
    IF verifiedLatest THEN "updateAddress" ELSE "catch"

\* extractTransactionChainFromMessage up to its first asynchronous call
ExtractStart(m) ==
    CASE BodyKind(m) = "json" -> "getAddress"
      [] BodyKind(m) = "nopayload" -> "threw"      \* TypeError on payload.address
      [] OTHER -> "rejected"                        \* returns Promise.reject(error)

NewTask(m) ==
    [msg |-> m, pc |-> ExtractStart(m), wroteTip |-> FALSE,
     tip |-> "none", deleteCalled |-> FALSE, polls |-> 0]

\* messages.map(extractTransactionChainFromMessage): a throw ends the map
RECURSIVE mapExtract(_, _)
mapExtract(batch, i) ==
    IF i > Len(batch) THEN <<>>
    ELSE IF ExtractStart(batch[i]) = "threw" THEN <<NewTask(batch[i])>>
    ELSE <<NewTask(batch[i])>> \o mapExtract(batch, i + 1)

InFlightPcs == {"getAddress", "verifySign", "verifyLatest", "updateAddress",
                "deleteMessage"}
InFlight(t) == tasks[t].pc \in InFlightPcs
TaskIds == 1..Len(tasks)

\* batches a receive may return: distinct queued messages not being processed
Deliverable == queue \ {tasks[t].msg : t \in {u \in TaskIds : InFlight(u)}}
Batches ==
    {b \in UNION {[1..n -> Deliverable] : n \in 1..MaxBatch} :
        \A i, j \in DOMAIN b : i # j => b[i] # b[j]}

(***************************************************************************)
(* The consumer.                                                           *)
(***************************************************************************)
\* FromAws.get({firstRun: true})
Start ==
    /\ UNCHANGED notConsumerVars
    /\ ~started
    /\ started' = TRUE
    /\ emptyMessages' = getCounter(TRUE, emptyMessages)
    /\ receives' = receives + 1
    /\ UNCHANGED <<exited, tasks, queue, latestTransaction, rows,
                   pendingUpserts, runRecord, consecEmpty, tipLog>>

\* handleResponseFromAws([]) with emptyMessages <= 2: get()
HandleEmptyRetry ==
    /\ UNCHANGED notConsumerVars
    /\ ~exited
    /\ receives > 0
    /\ ~EmptyAnswerExits(emptyMessages)
    /\ emptyMessages' = getCounter(FALSE, emptyMessages)
    /\ consecEmpty' = consecEmpty + 1
    /\ UNCHANGED <<started, exited, receives, tasks, queue,
                   latestTransaction, rows, pendingUpserts, runRecord, tipLog>>

\* handleResponseFromAws([]) with emptyMessages > 2: updateLastRun is called
\* and not waited for, then process.exit()
HandleEmptyExit ==
    /\ UNCHANGED notConsumerVars
    /\ ~exited
    /\ receives > 0
    /\ EmptyAnswerExits(emptyMessages)
    /\ emptyMessages' = 0
    /\ runRecord' = "issued"
    /\ exited' = TRUE
    /\ consecEmpty' = consecEmpty + 1
    /\ UNCHANGED <<started, receives, tasks, queue,
                   latestTransaction, rows, pendingUpserts, tipLog>>

\* handleResponseFromAws(messages), messages non-empty
HandleMessages(batch) ==
    /\ UNCHANGED notConsumerVars
    /\ ~exited
    /\ receives > 0
    /\ Len(tasks) + Len(batch) <= MaxTasks
    /\ receives' = receives - 1
    /\ tasks' = tasks \o mapExtract(batch, 1)
    /\ consecEmpty' = 0
    /\ UNCHANGED <<started, exited, emptyMessages, queue,
                   latestTransaction, rows, pendingUpserts, runRecord, tipLog>>

\* .catch(error => { emptyMessages = 0; get(); })
Catch(t) ==
    /\ emptyMessages' = getCounter(FALSE, 0)
    /\ receives' = receives + 1
    /\ tasks' = [tasks EXCEPT ![t].pc = "caught", ![t].polls = @ + 1]

\* the answer of getAddress(query)
GetAddressDone(t) ==
    /\ UNCHANGED notConsumerVars
    /\ ~exited
    /\ t \in TaskIds
    /\ tasks[t].pc = "getAddress"
    /\ LET step == AfterGetAddress(getAddress(BodyOf(tasks[t].msg).address))
       IN IF step = "catch"
          THEN Catch(t)
          ELSE /\ tasks' = [tasks EXCEPT ![t].pc = step]
               /\ UNCHANGED <<emptyMessages, receives>>
    /\ UNCHANGED <<started, exited, queue, latestTransaction, rows,
                   pendingUpserts, runRecord, consecEmpty, tipLog>>

\* the answer of verifySignature(transactionChain, ed25519, SIGNER_PUBLIC_KEY);
\* on success checkTransactionPayload issues saveTransaction for every entry
VerifySignDone(t) ==
    /\ UNCHANGED notConsumerVars
    /\ ~exited
    /\ t \in TaskIds
    /\ tasks[t].pc = "verifySign"
    /\ LET chain == BodyOf(tasks[t].msg)
           step == AfterVerifySign(verifySignature(chain, SIGNER_PUBLIC_KEY),
                                   chain)
       IN CASE step = "catch" ->
                 /\ Catch(t)
                 /\ UNCHANGED pendingUpserts
            [] step = "verifyLatest" ->
                 /\ tasks' = [tasks EXCEPT ![t].pc = step]
                 /\ pendingUpserts' = pendingUpserts \cup TxHashes(chain)
                 /\ UNCHANGED <<emptyMessages, receives>>
            [] OTHER ->
                 \* resolved without a latest entry: emptyMessages = 0 and
                 \* deleteMessage is called
                 /\ tasks' = [tasks EXCEPT ![t].pc = "deleteMessage",
                                           ![t].deleteCalled = TRUE]
                 /\ pendingUpserts' = pendingUpserts \cup TxHashes(chain)
                 /\ emptyMessages' = 0
                 /\ UNCHANGED receives
    /\ UNCHANGED <<started, exited, queue, latestTransaction, rows,
                   runRecord, consecEmpty, tipLog>>

\* the answer of verifySignature(latestTransaction, ed25519, address.keys.public)
VerifyLatestDone(t) ==
    /\ UNCHANGED notConsumerVars
    /\ ~exited
    /\ t \in TaskIds
    /\ tasks[t].pc = "verifyLatest"
    /\ LET chain == BodyOf(tasks[t].msg)
           address == getAddress(chain.address)
           step == AfterVerifyLatest(
                       verifySignature(latestOf(chain), address.public))
       IN IF step = "catch"
          THEN Catch(t)
          ELSE /\ tasks' = [tasks EXCEPT ![t].pc = step]
               /\ UNCHANGED <<emptyMessages, receives>>
    /\ UNCHANGED <<started, exited, queue, latestTransaction, rows,
                   pendingUpserts, runRecord, consecEmpty, tipLog>>

\* the answer of updateAddress: the write has landed
UpdateAddressDone(t) ==
    /\ UNCHANGED notConsumerVars
    /\ ~exited
    /\ t \in TaskIds
    /\ tasks[t].pc = "updateAddress"
    /\ LET chain == BodyOf(tasks[t].msg)
           address == getAddress(chain.address)
       IN /\ latestTransaction' =
                [latestTransaction EXCEPT
                   ![address.address] = latestOf(chain).hash]
          /\ tipLog' = Append(tipLog, t)
          /\ emptyMessages' = 0
          /\ tasks' = [tasks EXCEPT ![t].pc = "deleteMessage",
                                    ![t].wroteTip = TRUE,
                                    ![t].tip = latestOf(chain).hash,
                                    ![t].deleteCalled = TRUE]
          /\ UNCHANGED receives
    /\ UNCHANGED <<started, exited, queue, rows, pendingUpserts,
                   runRecord, consecEmpty>>

\* the answer of AWSQueue.deleteMessage: .then(() => get())
DeleteMessageDone(t) ==
    /\ UNCHANGED notConsumerVars
    /\ ~exited
    /\ t \in TaskIds
    /\ tasks[t].pc = "deleteMessage"
    /\ queue' = queue \ {tasks[t].msg}
    /\ emptyMessages' = getCounter(FALSE, emptyMessages)
    /\ receives' = receives + 1
    /\ tasks' = [tasks EXCEPT ![t].pc = "done", ![t].polls = @ + 1]
    /\ UNCHANGED <<started, exited, latestTransaction, rows,
                   pendingUpserts, runRecord, consecEmpty, tipLog>>

\* AWSQueue.deleteMessage rejects: the message stays on the queue and the
\* outer .catch polls again
DeleteMessageFails(t) ==
    /\ UNCHANGED notConsumerVars
    /\ ~exited
    /\ t \in TaskIds
    /\ tasks[t].pc = "deleteMessage"
    /\ Catch(t)
    /\ UNCHANGED <<started, exited, queue, latestTransaction, rows,
                   pendingUpserts, runRecord, consecEmpty, tipLog>>

\* an update issued by saveTransaction lands in the transactions collection
ApplyUpsert(h) ==
    /\ UNCHANGED notConsumerVars
    /\ ~exited
    /\ h \in pendingUpserts
    /\ pendingUpserts' = pendingUpserts \ {h}
    /\ rows' = updateTransaction(rows, h)
    /\ UNCHANGED <<started, exited, emptyMessages, receives, tasks, queue,
                   latestTransaction, runRecord, consecEmpty, tipLog>>

\* the run-record write that was on its way when the process exited reaches
\* the database (it may also never do so)
RunRecordLands ==
    /\ UNCHANGED notConsumerVars
    /\ exited
    /\ runRecord = "issued"
    /\ runRecord' = "written"
    /\ UNCHANGED <<started, exited, emptyMessages, receives, tasks, queue,
                   latestTransaction, rows, pendingUpserts,
                   consecEmpty, tipLog>>

Next ==
    \/ Start
    \/ HandleEmptyRetry
    \/ HandleEmptyExit
    \/ \E batch \in Batches : HandleMessages(batch)
    \/ \E t \in 1..MaxTasks : GetAddressDone(t)
    \/ \E t \in 1..MaxTasks : VerifySignDone(t)
    \/ \E t \in 1..MaxTasks : VerifyLatestDone(t)
    \/ \E t \in 1..MaxTasks : UpdateAddressDone(t)
    \/ \E t \in 1..MaxTasks : DeleteMessageDone(t)
    \/ \E h \in pendingUpserts : ApplyUpsert(h)
    \/ RunRecordLands

Spec == Init /\ [][Next]_vars

\* the same consumer on a queue that answers every receive with at most one
\* message
NextSerial ==
    \/ Start
    \/ HandleEmptyRetry
    \/ HandleEmptyExit
    \/ \E batch \in {b \in Batches : Len(b) = 1} : HandleMessages(batch)
    \/ \E t \in 1..MaxTasks : GetAddressDone(t)
    \/ \E t \in 1..MaxTasks : VerifySignDone(t)
    \/ \E t \in 1..MaxTasks : VerifyLatestDone(t)
    \/ \E t \in 1..MaxTasks : UpdateAddressDone(t)
    \/ \E t \in 1..MaxTasks : DeleteMessageDone(t)
    \/ \E h \in pendingUpserts : ApplyUpsert(h)
    \/ RunRecordLands

SpecSerial == Init /\ [][NextSerial]_vars

\* the serial consumer on a queue whose deleteMessage can fail, so that a
\* committed message is delivered again
NextRedeliver ==
    \/ Start
    \/ HandleEmptyRetry
    \/ HandleEmptyExit
    \/ \E batch \in {b \in Batches : Len(b) = 1} : HandleMessages(batch)
    \/ \E t \in 1..MaxTasks : GetAddressDone(t)
    \/ \E t \in 1..MaxTasks : VerifySignDone(t)
    \/ \E t \in 1..MaxTasks : VerifyLatestDone(t)
    \/ \E t \in 1..MaxTasks : UpdateAddressDone(t)
    \/ \E t \in 1..MaxTasks : DeleteMessageDone(t)
    \/ \E t \in 1..MaxTasks : DeleteMessageFails(t)
    \/ \E h \in pendingUpserts : ApplyUpsert(h)
    \/ RunRecordLands

SpecRedeliver == Init /\ [][NextRedeliver]_vars

\* the consumer on a queue that holds only envelopes: good ones of one and
\* two entries, one with a bad outer signature, one with a bad hash, one
\* whose latest entry has a bad signature, one without an entry of the
\* latest count and one for an unknown address
EnvelopeMessages ==
    {"E1", "E12", "EbadOuter", "EbadHash", "EbadInner", "EnoLatest", "EnoAddr"}

InitEnvelopes == Init /\ queue \subseteq EnvelopeMessages

SpecEnvelopes == InitEnvelopes /\ [][Next]_vars


(***************************************************************************)
(* helpers/transactionChain, the chain builder, as the unit test of the    *)
(* helper and section 4.3 of the specification describe it.  Money is in   *)
(* cents.  A digest is modelled by the value it was computed from, so two  *)
(* digests are equal exactly when their payloads are.                      *)
(***************************************************************************)
Undefined == -1000000       \* a field that is missing or is not a number
NullHash == <<"null">>
WrongHash == <<"0123456789abcdef">>

\* crypto.createHash('sha256').update(stringify(payload)).digest('hex')
sha256(payload) == <<"sha256", payload>>

ChainEntry(payload, hashValue) ==
    [hash |-> [type |-> "sha256", value |-> hashValue],
     payload |-> payload,
     signatures |-> <<>>]

Failed(message) == [error |-> message, entries |-> <<>>]
Built(entries) == [error |-> "none", entries |-> entries]

\* a createTransaction that repeats the count of the entry before
createTransaction_SameCount(transaction, previous, previousHash) ==
    IF ~transaction.isObject THEN Failed("invalid-transaction-input")
    ELSE IF transaction.amount = Undefined
         THEN Failed("invalid-transaction-amount")
    ELSE IF transaction.roundup = Undefined
         THEN Failed("invalid-transaction-roundup")
    ELSE LET payload ==
                 [count |-> previous.payload.count,
                  address |-> previous.payload.address,
                  amount |-> transaction.amount,
                  roundup |-> transaction.roundup,
                  balance |-> previous.payload.balance - transaction.roundup,
                  currency |-> previous.payload.currency,
                  limit |-> previous.payload.limit,
                  previous |-> previousHash,
                  timestamp |-> transaction.date,
                  reference |-> transaction.transactionId]
         IN Built(<<ChainEntry(payload, sha256(payload))>>)

\* a createTransaction that adds the roundup to the balance
createTransaction_AddRoundup(transaction, previous, previousHash) ==
    IF ~transaction.isObject THEN Failed("invalid-transaction-input")
    ELSE IF transaction.amount = Undefined
         THEN Failed("invalid-transaction-amount")
    ELSE IF transaction.roundup = Undefined
         THEN Failed("invalid-transaction-roundup")
    ELSE LET payload ==
                 [count |-> previous.payload.count + 1,
                  address |-> previous.payload.address,
                  amount |-> transaction.amount,
                  roundup |-> transaction.roundup,
                  balance |-> previous.payload.balance + transaction.roundup,
                  currency |-> previous.payload.currency,
                  limit |-> previous.payload.limit,
                  previous |-> previousHash,
                  timestamp |-> transaction.date,
                  reference |-> transaction.transactionId]
         IN Built(<<ChainEntry(payload, sha256(payload))>>)

\* a createTransaction that looks at the roundup before the amount
createTransaction_RoundupFirst(transaction, previous, previousHash) ==
    IF ~transaction.isObject THEN Failed("invalid-transaction-input")
    ELSE IF transaction.roundup = Undefined
         THEN Failed("invalid-transaction-roundup")
    ELSE IF transaction.amount = Undefined
         THEN Failed("invalid-transaction-amount")
    ELSE LET payload ==
                 [count |-> previous.payload.count + 1,
                  address |-> previous.payload.address,
                  amount |-> transaction.amount,
                  roundup |-> transaction.roundup,
                  balance |-> previous.payload.balance - transaction.roundup,
                  currency |-> previous.payload.currency,
                  limit |-> previous.payload.limit,
                  previous |-> previousHash,
                  timestamp |-> transaction.date,
                  reference |-> transaction.transactionId]
         IN Built(<<ChainEntry(payload, sha256(payload))>>)

\* a createTransaction that refuses a balance below the limit
createTransaction_EnforceLimit(transaction, previous, previousHash) ==
    IF ~transaction.isObject THEN Failed("invalid-transaction-input")
    ELSE IF transaction.amount = Undefined
         THEN Failed("invalid-transaction-amount")
    ELSE IF transaction.roundup = Undefined
         THEN Failed("invalid-transaction-roundup")
    ELSE IF previous.payload.balance - transaction.roundup
                < previous.payload.limit
         THEN Failed("limit-exceeded")
    ELSE LET payload ==
                 [count |-> previous.payload.count + 1,
                  address |-> previous.payload.address,
                  amount |-> transaction.amount,
                  roundup |-> transaction.roundup,
                  balance |-> previous.payload.balance - transaction.roundup,
                  currency |-> previous.payload.currency,
                  limit |-> previous.payload.limit,
                  previous |-> previousHash,
                  timestamp |-> transaction.date,
                  reference |-> transaction.transactionId]
         IN Built(<<ChainEntry(payload, sha256(payload))>>)

\* chain.createTransaction(transaction, previous, previousHash): one entry
\* or an Error
createTransaction(transaction, previous, previousHash) ==
    IF ~transaction.isObject THEN Failed("invalid-transaction-input")
    ELSE IF transaction.amount = Undefined
         THEN Failed("invalid-transaction-amount")
    ELSE IF transaction.roundup = Undefined
         THEN Failed("invalid-transaction-roundup")
    ELSE LET payload ==
                 [count |-> previous.payload.count + 1,
                  address |-> previous.payload.address,
                  amount |-> transaction.amount,
                  roundup |-> transaction.roundup,
                  balance |-> previous.payload.balance - transaction.roundup,
                  currency |-> previous.payload.currency,
                  limit |-> previous.payload.limit,
                  previous |-> previousHash,
                  timestamp |-> transaction.date,
                  reference |-> transaction.transactionId]
         IN Built(<<ChainEntry(payload, sha256(payload))>>)

\* the entries for the transactions in order, each built on the one before;
\* the first Error ends the build
RECURSIVE chainFrom(_, _)
chainFrom(previous, transactions) ==
    IF transactions = <<>> THEN Built(<<>>)
    ELSE LET first == createTransaction(Head(transactions), previous,
                                        previous.hash.value)
         IN IF first.error # "none" THEN first
            ELSE LET rest == chainFrom(first.entries[1], Tail(transactions))
                 IN IF rest.error # "none" THEN rest
                    ELSE Built(first.entries \o rest.entries)

HasRequiredFields(payload) ==
    /\ payload.count # Undefined
    /\ payload.balance # Undefined
    /\ payload.currency # "undefined"
    /\ payload.limit # Undefined

\* a create that compares the hash before it looks at the required fields
create_HashFirst(address, previous, transactions) ==
    IF previous.payload.address # address THEN Failed("address-mismatch")
    ELSE IF sha256(previous.payload) # previous.hash.value
         THEN Failed("previous-transaction-hash-mismatch")
    ELSE IF ~HasRequiredFields(previous.payload)
         THEN Failed("invalid-previous-transaction")
    ELSE chainFrom(previous, transactions)

\* chain.create(address, previous, transactions): what the promise settles with
create(address, previous, transactions) ==
    IF previous.payload.address # address THEN Failed("address-mismatch")
    ELSE IF ~HasRequiredFields(previous.payload)
         THEN Failed("invalid-previous-transaction")
    ELSE IF sha256(previous.payload) # previous.hash.value
         THEN Failed("previous-transaction-hash-mismatch")
    ELSE chainFrom(previous, transactions)

\* the inputs of the builder
ChainAddresses == {"A1", "A2"}

GenesisPayload(a) ==
    [count |-> 0, address |-> a, amount |-> 0, roundup |-> 0, balance |-> 0,
     currency |-> "USD", limit |-> -1000, previous |-> NullHash,
     timestamp |-> "d0", reference |-> "plaid_transaction_id"]

GenesisEntry(a) == ChainEntry(GenesisPayload(a), sha256(GenesisPayload(a)))

PlaidTx(id, amount, roundup) ==
    [isObject |-> TRUE, transactionId |-> id, amount |-> amount,
     roundup |-> roundup, date |-> "d1"]

EligibleTxs == {PlaidTx("p1", 123, 77), PlaidTx("p2", 456, 44)}
BadTxs ==
    {[PlaidTx("none", Undefined, Undefined) EXCEPT !.isObject = FALSE],
     PlaidTx("p6", Undefined, Undefined),
     PlaidTx("p3", Undefined, 11),
     PlaidTx("p4", 789, Undefined)}

\* a stored entry further down the chain of A1
LaterEntry == chainFrom(GenesisEntry("A1"), <<PlaidTx("p0", 234, 66)>>).entries[1]

\* the genesis of an address whose limit is one dollar
TightPayload == [GenesisPayload("A1") EXCEPT !.limit = -100]
TightEntry == ChainEntry(TightPayload, sha256(TightPayload))

Previouses ==
    {GenesisEntry("A1"), LaterEntry, TightEntry,
     [GenesisEntry("A1") EXCEPT !.hash.value = WrongHash],
     [GenesisEntry("A1") EXCEPT !.payload.balance = Undefined],
     [GenesisEntry("A1") EXCEPT !.payload.limit = Undefined,
                                !.hash.value = WrongHash]}

Batch(n) == UNION {[1..k -> EligibleTxs \cup BadTxs] : k \in 0..n}

\* the consumer before its start, on an empty queue
ConsumerIdle ==
    /\ started = FALSE
    /\ exited = FALSE
    /\ emptyMessages = 0
    /\ receives = 0
    /\ tasks = <<>>
    /\ queue = {}
    /\ latestTransaction = [a \in Addresses |-> GenesisHash]
    /\ rows = [h \in HashValues |-> IF h = GenesisHash THEN 1 ELSE 0]
    /\ pendingUpserts = {}
    /\ runRecord = "none"
    /\ consecEmpty = 0
    /\ tipLog = <<>>

InitChain ==
    /\ ConsumerIdle
    /\ WorkerIdle
    /\ SchedIdle
    /\ buildOutput = NoOutput
    /\ \E a \in ChainAddresses, previous \in Previouses,
          transactions \in Batch(MaxChainTxs) :
          buildInput = [address |-> a, previous |-> previous,
                        transactions |-> transactions]

\* transactionChain.create(address, previous, transactions) settles
Build ==
    /\ buildOutput = NoOutput
    /\ buildOutput' = create(buildInput.address, buildInput.previous,
                             buildInput.transactions)
    /\ UNCHANGED <<buildInput, consumerVars, workerVars, schedVars>>

NextChain == Build

SpecChain == InitChain /\ [][NextChain]_vars

(***************************************************************************)
(* The worker (RoundAndSend): request / requestHandler / processData /     *)
(* getPreviousChain / saveTransactions / sign / sendToQueue /              *)
(* sendPostToAws.  Every work item is for the same address.  A step is one *)
(* callback of the event loop together with the promise callbacks that     *)
(* run before the next event.                                              *)
(***************************************************************************)
WorkerAddress == "A1"
SERVER_KID == "server-kid"
ChunksPerResponse == 2

\* the aggregator's answers: the status and the transactions of the body
RawTx(id, amount, pending) ==
    [_id |-> id, amount |-> amount, numeric |-> TRUE, date |-> "d1",
     name |-> "shop", pending |-> pending]

\* a transaction whose amount is the text of a number
RawTxText(id, amount) == [RawTx(id, amount, FALSE) EXCEPT !.numeric = FALSE]

ResponseKinds == <<"ok", "okB", "empty", "http500", "garbage", "reqError">>
Responses == {ResponseKinds[k] : k \in DOMAIN ResponseKinds}
KindIndex(response) ==
    CHOOSE k \in DOMAIN ResponseKinds : ResponseKinds[k] = response

statusCode(response) == IF response = "http500" THEN 500 ELSE 200

TransactionsOf(response) ==
    CASE response = "ok" ->
             <<RawTx("p1", 123, FALSE), RawTx("p2", 456, FALSE)>>
      [] response = "okB" -> <<RawTx("p3", 700, FALSE)>>
      [] response = "empty" -> <<RawTx("p5", 999, TRUE)>>
      [] response = "bad" -> <<RawTx("p7", 250, FALSE), RawTxText("p4", 789)>>
      [] OTHER -> <<>>

\* the chunks of the response to work item i, in the order they arrive
Chunks(i) == [k \in 1..ChunksPerResponse |-> <<i, k>>]

\* JSON.parse(data).transactions: data parses when it is the whole body of
\* one response that carries transactions
JSONparse(data) ==
    IF \E j \in DOMAIN items :
          data = Chunks(j)
             /\ items[j].response \in {"ok", "okB", "empty", "bad"}
    THEN [ok |-> TRUE,
          transactions |->
              TransactionsOf(items[CHOOSE j \in DOMAIN items :
                                       data = Chunks(j)].response)]
    ELSE [ok |-> FALSE, transactions |-> <<>>]

\* helpers/plaidTransactionFilter
transactionFilter(transaction) ==
    ~transaction.pending /\ transaction.amount > 0

\* a roundup that gives nothing for a whole amount
roundup_WholeIsZero(amount) ==
    IF amount <= 0 THEN 0
    ELSE (100 - (amount % 100)) % 100

\* helpers/roundup, in cents
roundup(amount) ==
    IF amount <= 0 THEN 0
    ELSE IF amount % 100 = 0 THEN 100
    ELSE 100 - (amount % 100)

\* roundUpAndSave(personData, transaction): the plaidTransaction it returns;
\* an amount that is not a number is carried along as it is
roundUpAndSave(personData, transaction) ==
    [PlaidTx(transaction._id,
             IF transaction.numeric THEN transaction.amount ELSE Undefined,
             roundup(transaction.amount))
        EXCEPT !.date = transaction.date]

\* a collection without the unique index on transactionId
createPlaidTransaction_NoIndex(collection, plaidTransaction) ==
    collection (+) SetToBag({plaidTransaction})

\* transactions/create on the PlaidTransactions collection, whose schema has
\* transactionId unique: a second record of a transactionId is refused
createPlaidTransaction(collection, plaidTransaction) ==
    IF \E record \in BagToSet(collection) :
          record.transactionId = plaidTransaction.transactionId
    THEN collection
    ELSE collection (+) SetToBag({plaidTransaction})

\* the collection after savePlaid was called for each of the batch
RECURSIVE savePlaid(_, _)
savePlaid(collection, batch) ==
    IF batch = <<>> THEN collection
    ELSE savePlaid(createPlaidTransaction(collection, Head(batch)),
                   Tail(batch))

\* processData up to getPreviousChain: parse, filter, map(roundUpAndSave);
\* a failed console.assert of roundUpAndSave (typeof roundup === 'number')
\* throws where console.assert throws
processDataStart(data, personData) ==
    LET parsed == JSONparse(data)
        kept == SelectSeq(parsed.transactions, transactionFilter)
    IN IF ~parsed.ok THEN [rejected |-> TRUE, batch |-> <<>>]
       ELSE IF assertThrows /\ kept # <<>>
            THEN [rejected |-> TRUE, batch |-> <<>>]
       ELSE [rejected |-> FALSE,
             batch |-> [k \in 1..Len(kept) |->
                           roundUpAndSave(personData, kept[k])]]

\* transactions/chain/read: the stored entry with that hash.value, or null
NoPrevious == ChainEntry(GenesisPayload("none"), NullHash)
getTransaction(hashValue) ==
    IF \E e \in chainEntries : e.hash.value = hashValue
    THEN CHOOSE e \in chainEntries : e.hash.value = hashValue
    ELSE NoPrevious

\* addresses/read as getPreviousChain uses it: the list of the documents
AddressDocs(address) ==
    IF address \in Addresses THEN <<address>> ELSE <<>>

\* sign(params): console.assert(chain.length) throws where console.assert
\* throws
signThrows(chain) == assertThrows /\ Len(chain) = 0

\* a sign that leaves the signatures empty
sign_Unsigned(previousChain, address, chain) ==
    LET payload ==
            [address |-> address,
             previous |-> [hash |-> previousChain.hash,
                           payload |-> previousChain.payload,
                           signatures |-> previousChain.signatures],
             transactions |-> chain]
        value == sha256(payload)
    IN [hash |-> [type |-> "sha256", value |-> value],
        payload |-> payload,
        signatures |-> <<>>]

\* sign(params): the signature request message
sign(previousChain, address, chain) ==
    LET payload ==
            [address |-> address,
             previous |-> [hash |-> previousChain.hash,
                           payload |-> previousChain.payload,
                           signatures |-> previousChain.signatures],
             transactions |-> chain]
        value == sha256(payload)
    IN [hash |-> [type |-> "sha256", value |-> value],
        payload |-> payload,
        signatures |-> <<[header |-> [alg |-> "ed25519", kid |-> SERVER_KID],
                          signature |-> <<SERVER_KEY, value>>]>>]

NewItem(response) ==
    [personData |-> [_id |-> "u", address |-> WorkerAddress, token |-> "t"],
     response |-> response, pc |-> "idle", got |-> 0, ownBody |-> TRUE,
     batch |-> <<>>, previous |-> NoPrevious, enqueued |-> FALSE,
     triggered |-> FALSE, ready |-> 0]

ItemIds == DOMAIN items

\* what the promise of transactionChain.create settles with for item i
ChainFor(i) ==
    IF items[i].previous = NoPrevious THEN Failed("invalid-previous-transaction")
    ELSE create(items[i].personData.address, items[i].previous,
                items[i].batch)

\* the lists of work items; items differ only in the answer they get, so a
\* list is taken in the order of ResponseKinds
WorkLists ==
    {list \in UNION {[1..n -> {NewItem(r) : r \in Responses}] :
                        n \in 1..MaxItems} :
        \A i, j \in DOMAIN list :
            i < j => KindIndex(list[i].response) <= KindIndex(list[j].response)}

InitWorker ==
    /\ ConsumerIdle
    /\ ChainIdle
    /\ SchedIdle
    /\ assertThrows \in BOOLEAN
    /\ items \in WorkLists
    /\ _result = <<>>
    /\ plaidRecords = EmptyBag
    /\ chainEntries = {GenesisEntry(WorkerAddress)}
    /\ addressTip = GenesisEntry(WorkerAddress).hash.value
    /\ toSigner = <<>>

\* the .catch of requestHandler: logger.error, process.send('ready')
Rejected(i) ==
    items' = [items EXCEPT ![i].pc = "done", ![i].ready = @ + 1]

\* request(personData); the items are handed over in their order
Request(i) ==
    /\ i \in ItemIds
    /\ items[i].pc = "idle"
    /\ \A j \in 1..(i - 1) : items[j].pc # "idle"
    /\ items' = [items EXCEPT ![i].pc = "requested"]
    /\ UNCHANGED <<assertThrows, _result, plaidRecords, chainEntries,
                   addressTip, toSigner, consumerVars, chainVars, schedVars>>

\* req.on('error', logger.error): the request fails or times out
RequestError(i) ==
    /\ i \in ItemIds
    /\ items[i].pc = "requested"
    /\ items[i].response = "reqError"
    /\ items' = [items EXCEPT ![i].pc = "silent"]
    /\ UNCHANGED <<assertThrows, _result, plaidRecords, chainEntries,
                   addressTip, toSigner, consumerVars, chainVars, schedVars>>

\* requestHandler(personData, res): the response starts
RequestHandler(i) ==
    /\ i \in ItemIds
    /\ items[i].pc = "requested"
    /\ items[i].response # "reqError"
    /\ _result' = <<>>
    /\ items' = [items EXCEPT ![i].pc = "receiving"]
    /\ UNCHANGED <<assertThrows, plaidRecords, chainEntries, addressTip,
                   toSigner, consumerVars, chainVars, schedVars>>

\* res.on('data', chunk => _result += chunk)
ResData(i) ==
    /\ i \in ItemIds
    /\ items[i].pc = "receiving"
    /\ items[i].got < ChunksPerResponse
    /\ _result' = Append(_result, Chunks(i)[items[i].got + 1])
    /\ items' = [items EXCEPT ![i].got = @ + 1]
    /\ UNCHANGED <<assertThrows, plaidRecords, chainEntries, addressTip,
                   toSigner, consumerVars, chainVars, schedVars>>

\* res.on('end', ...): a status other than 200 is logged and nothing more;
\* otherwise processData(_result, personData) runs up to getPreviousChain
ResEnd(i) ==
    /\ i \in ItemIds
    /\ items[i].pc = "receiving"
    /\ items[i].got = ChunksPerResponse
    /\ IF statusCode(items[i].response) # 200
       THEN /\ _result' = <<>>
            /\ items' = [items EXCEPT ![i].pc = "silent", ![i].ownBody = (_result = Chunks(i))]
            /\ UNCHANGED plaidRecords
       ELSE LET start == processDataStart(_result, items[i].personData)
            IN /\ UNCHANGED _result
               /\ plaidRecords' = savePlaid(plaidRecords, start.batch)
               /\ IF start.rejected
                  THEN items' = [items EXCEPT ![i].pc = "done",
                                              ![i].ready = @ + 1,
                                              ![i].ownBody = (_result = Chunks(i))]
                  ELSE items' = [items EXCEPT ![i].pc = "getAddress",
                                              ![i].ownBody =
                                                  (_result = Chunks(i)),
                                              ![i].batch = start.batch]
    /\ UNCHANGED <<assertThrows, chainEntries, addressTip, toSigner,
                   consumerVars, chainVars, schedVars>>

\* a getPreviousChain that calls getTransaction whatever getAddress answered
PreviousAddress_NoCheck(i) ==
    /\ i \in ItemIds
    /\ items[i].pc = "getAddress"
    /\ items' = [items EXCEPT ![i].pc = "getTransaction"]
    /\ UNCHANGED <<assertThrows, _result, plaidRecords, chainEntries,
                   addressTip, toSigner, consumerVars, chainVars, schedVars>>

\* getPreviousChain: the answer of getAddress({address: personData.address});
\* no address rejects, otherwise getTransaction is called
PreviousAddress(i) ==
    /\ i \in ItemIds
    /\ items[i].pc = "getAddress"
    /\ IF Len(AddressDocs(items[i].personData.address)) = 0
       THEN Rejected(i)
       ELSE items' = [items EXCEPT ![i].pc = "getTransaction"]
    /\ UNCHANGED <<assertThrows, _result, plaidRecords, chainEntries,
                   addressTip, toSigner, consumerVars, chainVars, schedVars>>

\* a processData that goes on after transactionChain.create has rejected
PreviousChain_IgnoreError(i) ==
    /\ i \in ItemIds
    /\ items[i].pc = "getTransaction"
    /\ LET previous == getTransaction(addressTip)
           withPrevious == [items EXCEPT ![i].previous = previous]
           built == IF previous = NoPrevious
                    THEN Failed("invalid-previous-transaction")
                    ELSE create(items[i].personData.address, previous,
                                items[i].batch)
       IN /\ chainEntries' = chainEntries \cup
                    {built.entries[k] : k \in DOMAIN built.entries}
          /\ IF signThrows(built.entries) /\ built.error = "none"
             THEN items' = [withPrevious EXCEPT ![i].pc = "done",
                                                ![i].ready = @ + 1]
             ELSE items' = [withPrevious EXCEPT ![i].pc = "sendToQueue"]
    /\ UNCHANGED <<assertThrows, _result, plaidRecords, addressTip, toSigner,
                   consumerVars, chainVars, schedVars>>

\* the answer of getTransaction({'hash.value': address[0].latestTransaction}),
\* then transactionChain.create, saveTransactions, sign and the call of
\* AWSQueue.sendMessage
PreviousChain(i) ==
    /\ i \in ItemIds
    /\ items[i].pc = "getTransaction"
    /\ LET previous == getTransaction(addressTip)
           withPrevious == [items EXCEPT ![i].previous = previous]
           built == IF previous = NoPrevious
                    THEN Failed("invalid-previous-transaction")
                    ELSE create(items[i].personData.address, previous,
                                items[i].batch)
       IN IF built.error # "none"
          THEN /\ items' = [withPrevious EXCEPT ![i].pc = "done",
                                                ![i].ready = @ + 1]
               /\ UNCHANGED chainEntries
          ELSE /\ chainEntries' = chainEntries \cup
                    {built.entries[k] : k \in DOMAIN built.entries}
               /\ IF signThrows(built.entries)
                  THEN items' = [withPrevious EXCEPT ![i].pc = "done",
                                                     ![i].ready = @ + 1]
                  ELSE items' = [withPrevious EXCEPT ![i].pc = "sendToQueue"]
    /\ UNCHANGED <<assertThrows, _result, plaidRecords, addressTip, toSigner,
                   consumerVars, chainVars, schedVars>>

\* AWSQueue.sendMessage resolves: sendPostToAws sends the POST to the signer
SendToQueueDone(i) ==
    /\ i \in ItemIds
    /\ items[i].pc = "sendToQueue"
    /\ toSigner' = Append(toSigner,
                          sign(items[i].previous, items[i].personData.address,
                               ChainFor(i).entries))
    /\ items' = [items EXCEPT ![i].pc = "sendPostToAws",
                              ![i].enqueued = TRUE,
                              ![i].triggered = TRUE]
    /\ UNCHANGED <<assertThrows, _result, plaidRecords, chainEntries,
                   addressTip, consumerVars, chainVars, schedVars>>

\* a worker that sends the POST to the signer although the enqueue failed
SendToQueueFails_Triggers(i) ==
    /\ i \in ItemIds
    /\ items[i].pc = "sendToQueue"
    /\ items' = [items EXCEPT ![i].pc = "sendPostToAws",
                              ![i].triggered = TRUE]
    /\ UNCHANGED <<assertThrows, _result, plaidRecords, chainEntries,
                   addressTip, toSigner, consumerVars, chainVars, schedVars>>

\* AWSQueue.sendMessage rejects
SendToQueueFails(i) ==
    /\ i \in ItemIds
    /\ items[i].pc = "sendToQueue"
    /\ Rejected(i)
    /\ UNCHANGED <<assertThrows, _result, plaidRecords, chainEntries,
                   addressTip, toSigner, consumerVars, chainVars, schedVars>>

\* the signer's response ends: processData resolves, _result = '' and
\* process.send('ready')
SignerResponseEnd(i) ==
    /\ i \in ItemIds
    /\ items[i].pc = "sendPostToAws"
    /\ _result' = <<>>
    /\ items' = [items EXCEPT ![i].pc = "done", ![i].ready = @ + 1]
    /\ UNCHANGED <<assertThrows, plaidRecords, chainEntries, addressTip,
                   toSigner, consumerVars, chainVars, schedVars>>

\* the signer gives no response: the promise of sendPostToAws never settles
SignerNoResponse(i) ==
    /\ i \in ItemIds
    /\ items[i].pc = "sendPostToAws"
    /\ items' = [items EXCEPT ![i].pc = "silent"]
    /\ UNCHANGED <<assertThrows, _result, plaidRecords, chainEntries,
                   addressTip, toSigner, consumerVars, chainVars, schedVars>>

\* the signer countersigns the oldest envelope and the consumer commits it:
\* checkTransactionPayload sets latestTransaction to the entry whose count is
\* previous.payload.count + transactions.length, when there is one
CommitEnvelope ==
    /\ toSigner # <<>>
    /\ LET chainPayload == Head(toSigner).payload
           comparison == chainPayload.previous.payload.count
                           + Len(chainPayload.transactions)
           latest == {k \in DOMAIN chainPayload.transactions :
                        chainPayload.transactions[k].payload.count = comparison}
       IN addressTip' =
            IF latest = {} THEN addressTip
            ELSE chainPayload.transactions[CHOOSE k \in latest :
                    \A l \in latest : l <= k].hash.value
    /\ toSigner' = Tail(toSigner)
    /\ UNCHANGED <<assertThrows, items, _result, plaidRecords, chainEntries,
                   consumerVars, chainVars, schedVars>>

NextWorker ==
    \/ \E i \in 1..MaxItems : Request(i)
    \/ \E i \in 1..MaxItems : RequestError(i)
    \/ \E i \in 1..MaxItems : RequestHandler(i)
    \/ \E i \in 1..MaxItems : ResData(i)
    \/ \E i \in 1..MaxItems : ResEnd(i)
    \/ \E i \in 1..MaxItems : PreviousAddress(i)
    \/ \E i \in 1..MaxItems : PreviousChain(i)
    \/ \E i \in 1..MaxItems : SendToQueueDone(i)
    \/ \E i \in 1..MaxItems : SendToQueueFails(i)
    \/ \E i \in 1..MaxItems : SignerResponseEnd(i)
    \/ \E i \in 1..MaxItems : SignerNoResponse(i)
    \/ CommitEnvelope

SpecWorker == InitWorker /\ [][NextWorker]_vars

\* the worker on runs whose answers are well-formed: eligible transactions,
\* a transaction whose amount is not a number, no eligible transaction, or
\* no answer at all
RunKinds == <<"ok", "bad", "empty", "reqError">>
RunIndex(response) == CHOOSE k \in DOMAIN RunKinds : RunKinds[k] = response

RunLists ==
    {list \in UNION {[1..n -> {NewItem(RunKinds[k]) : k \in DOMAIN RunKinds}] :
                        n \in 1..MaxItems} :
        \A i, j \in DOMAIN list :
            i < j => RunIndex(list[i].response) <= RunIndex(list[j].response)}

InitWorkerRuns ==
    /\ ConsumerIdle
    /\ ChainIdle
    /\ SchedIdle
    /\ assertThrows \in BOOLEAN
    /\ items \in RunLists
    /\ _result = <<>>
    /\ plaidRecords = EmptyBag
    /\ chainEntries = {GenesisEntry(WorkerAddress)}
    /\ addressTip = GenesisEntry(WorkerAddress).hash.value
    /\ toSigner = <<>>

SpecWorkerRuns == InitWorkerRuns /\ [][NextWorker]_vars

(***************************************************************************)
(* The worker on work items whose address may have no Address document,    *)
(* and on an Address whose latestTransaction may name no stored entry.     *)
(***************************************************************************)
UnknownAddress == "AX"
TipKinds == <<"ok", "reqError">>
TipIndex(response) == CHOOSE k \in DOMAIN TipKinds : TipKinds[k] = response

ItemFor(response, address) ==
    [NewItem(response) EXCEPT !.personData.address = address]

TipLists ==
    {list \in UNION {[1..n -> {ItemFor(TipKinds[k], a) :
                                  k \in DOMAIN TipKinds,
                                  a \in {WorkerAddress, UnknownAddress}}] :
                        n \in 1..MaxItems} :
        \A i, j \in DOMAIN list :
            i < j => TipIndex(list[i].response) <= TipIndex(list[j].response)}

InitWorkerTips ==
    /\ ConsumerIdle
    /\ ChainIdle
    /\ SchedIdle
    /\ assertThrows \in BOOLEAN
    /\ items \in TipLists
    /\ _result = <<>>
    /\ plaidRecords = EmptyBag
    /\ chainEntries = {GenesisEntry(WorkerAddress)}
    /\ addressTip \in {GenesisEntry(WorkerAddress).hash.value, WrongHash}
    /\ toSigner = <<>>

SpecWorkerTips == InitWorkerTips /\ [][NextWorker]_vars

(***************************************************************************)
(* sign(params) and the text it hashes.  The repository holds two versions *)
(* of the worker: one serializes the payload with json-stable-stringify,   *)
(* the other with JSON.stringify.  An object is the sequence of its        *)
(* <<key, text of the value>> pairs in the order the keys were inserted.   *)
(***************************************************************************)
Workers == {"stable", "plain"}

\* the keys of a chain entry's payload in the order the schema lists them
PayloadKeys == <<"count", "address", "balance", "amount">>

\* the keys that occur, in lexicographic order
SortedKeys ==
    <<"address", "amount", "balance", "count", "previous", "transactions">>
KeyRank(key) == CHOOSE k \in DOMAIN SortedKeys : SortedKeys[k] = key

RECURSIVE PairsText(_)
PairsText(object) ==
    IF object = <<>> THEN <<>>
    ELSE <<Head(object)[1], ":">> \o Head(object)[2] \o PairsText(Tail(object))

\* JSON.stringify(object): the pairs in the order of insertion
JSONstringify(object) == <<"{">> \o PairsText(object) \o <<"}">>

RECURSIVE sortKeys(_)
sortKeys(object) ==
    IF object = <<>> THEN <<>>
    ELSE LET first == CHOOSE i \in DOMAIN object :
                         \A j \in DOMAIN object :
                             KeyRank(object[i][1]) <= KeyRank(object[j][1])
             others == SelectSeq(object, LAMBDA pair : pair # object[first])
         IN <<object[first]>> \o sortKeys(others)

\* stringify(object) of json-stable-stringify: the pairs in key order
stringify(object) == JSONstringify(sortKeys(object))

serialize(worker, object) ==
    IF worker = "stable" THEN stringify(object) ELSE JSONstringify(object)

\* signatureRequestMessage.hash.value of sign(params): the digest of the
\* serialized payload {address, previous, transactions}; nested objects are
\* serialized the same way
signHash(worker, address, previousPayload, chainPayload) ==
    LET payload ==
            << <<"address", <<address>> >>,
               <<"previous", serialize(worker, previousPayload)>>,
               <<"transactions",
                 <<"[">> \o serialize(worker, chainPayload) \o <<"]">> >> >>
    IN sha256(serialize(worker, payload))

\* the orders in which an object can hold its first MaxKeys payload keys
KeyOrders ==
    {order \in [1..MaxKeys -> 1..MaxKeys] :
        \A i, j \in 1..MaxKeys : order[i] = order[j] => i = j}

ValueText(key, count) ==
    CASE key = "count" -> <<count>>
      [] key = "address" -> <<WorkerAddress>>
      [] key = "balance" -> <<"-77">>
      [] OTHER -> <<"123">>

PayloadObject(order, count) ==
    [i \in 1..MaxKeys |->
        <<PayloadKeys[order[i]], ValueText(PayloadKeys[order[i]], count)>>]

\* the payload of the one transaction of both envelopes
ChainPayloadObject == PayloadObject([i \in 1..MaxKeys |-> i], "3")

InitSign ==
    /\ ConsumerIdle
    /\ WorkerIdle
    /\ SchedIdle
    /\ buildOutput = NoOutput
    /\ \E worker \in Workers, order1 \in KeyOrders, order2 \in KeyOrders,
          count1 \in {"1", "2"}, count2 \in {"1", "2"} :
          buildInput = [worker |-> worker,
                        previous |-> <<PayloadObject(order1, count1),
                                       PayloadObject(order2, count2)>>]

\* sign(params) is called for two envelopes
Sign ==
    /\ buildOutput = NoOutput
    /\ buildOutput' =
         [hashes |-> [e \in 1..2 |->
                         signHash(buildInput.worker, WorkerAddress,
                                  buildInput.previous[e], ChainPayloadObject)]]
    /\ UNCHANGED <<buildInput, consumerVars, workerVars, schedVars>>

NextSign == Sign

SpecSign == InitSign /\ [][NextSign]_vars

(***************************************************************************)
(* The scheduler (roundup/trigger.js): triggerRoundups / processRoundups / *)
(* buildRoundupParams / setupDateOptions, with the worker it starts through *)
(* request(personData).  Users that stand alike are not told apart: the    *)
(* selected users are a bag of records.  All runs are on one calendar day. *)
(***************************************************************************)
\* the user documents the query of triggerRoundups selects:
\*   "ok"          active pledge with addresses, known bank, token and account
\*   "noBank"      no Bank document for activePledge.bankId
\*   "noAccount"   no user.plaid.accounts entry for bank.type
\*   "noAddresses" the first active pledge has no addresses (the query is
\*                 satisfied by another pledge of the user)
UserKinds == {"ok", "noBank", "noAccount", "noAddresses"}

UserDoc(kind, latestRoundupDate) ==
    [kind |-> kind, date0 |-> latestRoundupDate, date |-> latestRoundupDate,
     pc |-> "queued", envelopes |-> 0, launches |-> 0]

One(u) == SetToBag({u})
Put(u, v) == (users (-) One(u)) (+) One(v)
UsersAt(pcs) == {u \in BagToSet(users) : u.pc \in pcs}
NumberAt(pcs) ==
    BagCardinality([u \in UsersAt(pcs) |-> CopiesIn(u, users)])

\* n users of one kind and date
RECURSIVE Crowd(_, _)
Crowd(u, n) == IF n = 0 THEN EmptyBag ELSE One(u) (+) Crowd(u, n - 1)

\* the users that stand out of the crowd in a run
Specials ==
    {UserDoc(k, "earlier") : k \in UserKinds \ {"ok"}}
        \cup {UserDoc("ok", "today"), UserDoc("ok", "none")}

\* dates are days of the current month; a value that is not there
\* (undefined) and a string that moment cannot parse stand beside them
Absent == 0
Invalid == -1
FirstOfMonth == 1
Days == 1..MaxDay

\* moment(value): the current time for undefined, else the parsed value
moment(value, today) == IF value = Absent THEN today ELSE value
isValid(date) == date # Invalid

\* the options of a triggerRoundups() call without arguments
NoOptions == [lte |-> Absent, gte |-> Absent, month |-> FALSE]

\* setupDateOptions(options, latestRoundupDate): skip stands for the string
\* 'already-run-today', otherwise lte and gte are those of dateOptions
setupDateOptions(options, latestRoundupDate, today) ==
    IF latestRoundupDate = today
    THEN [skip |-> TRUE, lte |-> Absent, gte |-> Absent]
    ELSE LET lteDate == moment(options.lte, today)
             gteDate == moment(IF options.gte # Absent THEN options.gte
                               ELSE latestRoundupDate, today)
         IN [skip |-> FALSE,
             lte |-> IF isValid(lteDate) /\ lteDate < today THEN lteDate
                     ELSE options.lte,
             gte |-> IF isValid(gteDate) /\ gteDate < today THEN gteDate
                     ELSE IF options.month THEN FirstOfMonth
                     ELSE options.gte]

\* the day of the scheduler's runs and the latestRoundupDate of a user
SchedToday == 2
DayOf(latestRoundupDate) ==
    CASE latestRoundupDate = "today" -> SchedToday
      [] latestRoundupDate = "earlier" -> SchedToday - 1
      [] OTHER -> Absent

\* buildRoundupParams before Bank.findOne: activePledge.addresses[currentMonth]
\* throws a TypeError when the pledge has no addresses
buildRoundupParamsThrows(user) == user.kind = "noAddresses"

\* buildRoundupParams, the callback of Bank.findOne
buildRoundupParams(user) ==
    CASE user.kind = "noBank" -> "invalid-pledge-bank"
      [] user.kind = "noAccount" -> "TypeError"
      [] OTHER -> "params"

\* what request(personData) returns to processRoundups: it has no return
\* statement
requestReturns == "undefined"

\* a catch of processRoundups that records the day
processRoundupsCatch_SaveDate(user) == [user EXCEPT !.date = "today"]

\* the .catch of processRoundups: error.details, logger.error; the user
\* document is left alone
processRoundupsCatch(user) == user

\* the promise of P.map after a step: rejected once a mapper threw, resolved
\* when no user is queued and no mapper is pending
MapAfter(threw, bag) ==
    IF threw \/ mapState = "rejected" THEN "rejected"
    ELSE IF \E u \in BagToSet(bag) : u.pc \in {"queued", "bank", "awaiting"}
         THEN "running"
    ELSE "resolved"

InitSched ==
    /\ ConsumerIdle
    /\ ChainIdle
    /\ WorkerIdle
    /\ mapState = "idle"
    /\ \E n \in 1..MaxUsers, special \in SUBSET Specials :
         /\ Cardinality(special) <= 1
         /\ users = Crowd(UserDoc("ok", "earlier"), n) (+) SetToBag(special)
         /\ runsLeft = IF n <= MaxDailyUsers THEN MaxRuns ELSE 1

\* triggerRoundups(options): the query answers and P.map is called; a later
\* call of the day comes when the run before it and its workers have ended
TriggerRoundups ==
    /\ runsLeft > 0
    /\ mapState # "running"
    /\ UsersAt({"worker"}) = {}
    /\ runsLeft' = runsLeft - 1
    /\ LET Requeue(u) == [u EXCEPT !.pc = "queued"]
       IN users' = BagOfAll(Requeue, users)
    /\ mapState' = "running"
    /\ UNCHANGED <<consumerVars, chainVars, workerVars>>

\* P.map calls processRoundups(user, options) while fewer than
\* ROUNDUP_CONCURRENCY mappers are pending and the map has not rejected
ProcessRoundups(u) ==
    /\ mapState = "running"
    /\ u \in UsersAt({"queued"})
    /\ NumberAt({"bank", "awaiting"}) < ROUNDUP_CONCURRENCY
    /\ LET v == IF setupDateOptions(NoOptions, DayOf(u.date), SchedToday).skip
                THEN [u EXCEPT !.pc = "skipped"]
                ELSE IF buildRoundupParamsThrows(u)
                     THEN [u EXCEPT !.pc = "threw"]
                ELSE [u EXCEPT !.pc = "bank"]
       IN /\ users' = Put(u, v)
          /\ mapState' = MapAfter(v.pc = "threw", Put(u, v))
    /\ UNCHANGED <<runsLeft, consumerVars, chainVars, workerVars>>

\* the answer of Bank.findOne: a rejection goes to the .catch; otherwise
\* requestAndRoundup(roundupParams, dateOptions) starts the worker and .then
\* is called on what it returns
BankFound(u) ==
    /\ u \in UsersAt({"bank"})
    /\ LET v == IF buildRoundupParams(u) # "params"
                THEN [processRoundupsCatch(u) EXCEPT !.pc = "failed"]
                ELSE IF requestReturns = "undefined"
                     THEN [processRoundupsCatch(u) EXCEPT
                              !.pc = "worker", !.launches = @ + 1]
                ELSE [u EXCEPT !.pc = "awaiting", !.launches = @ + 1]
       IN /\ users' = Put(u, v)
          /\ mapState' = MapAfter(FALSE, Put(u, v))
    /\ UNCHANGED <<runsLeft, consumerVars, chainVars, workerVars>>

\* the worker of a user ends: its envelope is on the to-signer queue or the
\* run failed before; a scheduler waiting for it goes on with
\* user.latestRoundupDate = today; user.save()
WorkerEnds(u, enqueued) ==
    /\ u \in UsersAt({"worker", "awaiting"})
    /\ LET w == IF enqueued THEN [u EXCEPT !.envelopes = @ + 1] ELSE u
           v == IF u.pc = "worker" THEN [w EXCEPT !.pc = "finished"]
                ELSE IF enqueued
                     THEN [w EXCEPT !.pc = "finished", !.date = "today"]
                ELSE [processRoundupsCatch(w) EXCEPT !.pc = "failed"]
       IN /\ users' = Put(u, v)
          /\ mapState' = MapAfter(FALSE, Put(u, v))
    /\ UNCHANGED <<runsLeft, consumerVars, chainVars, workerVars>>

NextSched ==
    \/ TriggerRoundups
    \/ \E u \in BagToSet(users) : ProcessRoundups(u)
    \/ \E u \in BagToSet(users) : BankFound(u)
    \/ \E u \in BagToSet(users), enqueued \in BOOLEAN : WorkerEnds(u, enqueued)

SpecSched == InitSched /\ [][NextSched]_vars

\* the scheduler with every pending callback run in the end, as the event
\* loop runs it
SpecSchedFair == SpecSched /\ WF_vars(NextSched)

(***************************************************************************)
(* setupDateOptions on its own: every day of the run, every lte, gte and   *)
(* month a caller of triggerRoundups may pass and every latestRoundupDate  *)
(* a user may have.                                                        *)
(***************************************************************************)
DateValues == Days \cup {Absent, Invalid}

InitDates ==
    /\ ConsumerIdle
    /\ WorkerIdle
    /\ SchedIdle
    /\ buildOutput = NoOutput
    /\ \E today \in 1..(MaxDay - 1), lte \in DateValues, gte \in DateValues,
          month \in BOOLEAN, latestRoundupDate \in Days \cup {Absent} :
          buildInput = [today |-> today,
                        options |-> [lte |-> lte, gte |-> gte, month |-> month],
                        latestRoundupDate |-> latestRoundupDate]

\* processRoundups calls setupDateOptions(options, user.latestRoundupDate)
SetupDateOptions ==
    /\ buildOutput = NoOutput
    /\ buildOutput' = setupDateOptions(buildInput.options,
                                       buildInput.latestRoundupDate,
                                       buildInput.today)
    /\ UNCHANGED <<buildInput, consumerVars, workerVars, schedVars>>

NextDates == SetupDateOptions

SpecDates == InitDates /\ [][NextDates]_vars

(***************************************************************************)
(* helpers/roundup on its own: one amount in cents, of either sign, whole  *)
(* or with a fractional part, and the call roundUpAndSave makes with it.   *)
(***************************************************************************)
Cents == (0 - MaxCents)..MaxCents

InitRoundup ==
    /\ ConsumerIdle
    /\ WorkerIdle
    /\ SchedIdle
    /\ buildOutput = NoOutput
    /\ \E amount \in Cents : buildInput = [amount |-> amount]

\* roundUpAndSave: let roundupValue = roundup(transaction.amount)
RoundupValue ==
    /\ buildOutput = NoOutput
    /\ buildOutput' = [roundup |-> roundup(buildInput.amount)]
    /\ UNCHANGED <<buildInput, consumerVars, workerVars, schedVars>>

NextRoundup == RoundupValue

SpecRoundup == InitRoundup /\ [][NextRoundup]_vars

(***************************************************************************)
(* Vocabulary of the properties.                                           *)
(***************************************************************************)
ChainOf(t) == BodyOf(tasks[t].msg)
InFlightTasks == {t \in TaskIds : InFlight(t)}

\* the step in which task t writes Address.latestTransaction
WritesTip(t) == t \in TaskIds /\ tasks'[t].wroteTip /\ ~tasks[t].wroteTip

OuterFails(chain) == ~verifySignature(chain, SIGNER_PUBLIC_KEY)
InnerFails(chain) ==
    /\ ~OuterFails(chain)
    /\ latestOf(chain) # NoTx
    /\ ~verifySignature(latestOf(chain), AddressKey[chain.address])

\* task t handles an envelope of a known address that fails a verification
SigFails(t) ==
    /\ BodyKind(tasks[t].msg) = "json"
    /\ ChainOf(t).address \in Addresses
    /\ OuterFails(ChainOf(t)) \/ InnerFails(ChainOf(t))

(***************************************************************************)
(* C1: Address.latestTransaction only advances forward: the payload.count  *)
(* of the entry it names never decreases, whatever the order or repetition *)
(* of the consumed envelopes, and it is written only by an envelope whose  *)
(* latest entry verified under the address public key.                     *)
(***************************************************************************)
C1_TipOnlyAdvances ==
    [][\A a \in Addresses :
          latestTransaction'[a] # latestTransaction[a] =>
            /\ CountOf(latestTransaction'[a]) >= CountOf(latestTransaction[a])
            /\ \E t \in TaskIds :
                 /\ WritesTip(t)
                 /\ verifySignature(latestOf(ChainOf(t)), AddressKey[a])]_vars

(***************************************************************************)
(* C2: an envelope whose payload.previous.hash.value differs from the      *)
(* address's current latestTransaction is rejected, so every write of the  *)
(* tip is by an envelope built on the tip it replaces.                     *)
(***************************************************************************)
C2_StaleEnvelopeRejected ==
    [][\A t \in TaskIds :
          WritesTip(t) =>
            ChainOf(t).prevHash = latestTransaction[ChainOf(t).address]]_vars

(***************************************************************************)
(* C3: the consumer is single-flight: at most one message is in process,   *)
(* at most one receive is outstanding, and no receive is outstanding while *)
(* a message is in process.                                                *)
(***************************************************************************)
C3_SingleFlight == receives + Cardinality(InFlightTasks) <= 1

(***************************************************************************)
(* C4: envelopes of one address write latestTransaction in the order in    *)
(* which the consumer received them.                                       *)
(***************************************************************************)
C4_WritesInReceiveOrder ==
    \A i, j \in 1..Len(tipLog) :
        (i < j /\ ChainOf(tipLog[i]).address = ChainOf(tipLog[j]).address)
            => tipLog[i] < tipLog[j]

(***************************************************************************)
(* C5: deleteMessage is called for a message only after its commit: every  *)
(* entry of the envelope upserted and latestTransaction set to the         *)
(* verified latest entry; a message that did not advance the tip is never  *)
(* deleted.                                                                *)
(***************************************************************************)
C5_DeleteOnlyAfterCommit ==
    \A t \in TaskIds :
        tasks[t].deleteCalled =>
            /\ tasks[t].wroteTip
            /\ \A h \in TxHashes(ChainOf(t)) : rows[h] > 0

(***************************************************************************)
(* C6: when the outer signature of an envelope, or the signature of its    *)
(* latest entry under Address.keys.public, fails verification, the         *)
(* consumer does not write latestTransaction for it, does not call         *)
(* deleteMessage for it, and issues the next receive.                      *)
(***************************************************************************)
C6_SignatureFailureDrops ==
    \A t \in TaskIds :
        SigFails(t) =>
            /\ ~tasks[t].wroteTip
            /\ ~tasks[t].deleteCalled
            /\ tasks[t].pc \in {"getAddress", "verifySign", "verifyLatest",
                                "caught"}
            /\ tasks[t].pc = "caught" => tasks[t].polls = 1

\* an envelope with a bad outer signature and one with a bad latest entry have
\* both been dropped, and the receives they issued are outstanding
C6_Witness ==
    \E t, u \in TaskIds :
        /\ SigFails(t) /\ OuterFails(ChainOf(t)) /\ tasks[t].pc = "caught"
        /\ SigFails(u) /\ InnerFails(ChainOf(u)) /\ tasks[u].pc = "caught"
        /\ receives >= 1
        /\ ~exited

(***************************************************************************)
(* C7: every envelope that advances latestTransaction carries exactly two  *)
(* signatures, the first by the server key and the second by the signer    *)
(* key, over a hash.value that matches its payload.                        *)
(***************************************************************************)
C7_TwoSignaturesOnCommit ==
    \A t \in TaskIds :
        tasks[t].wroteTip =>
            /\ ChainOf(t).hashOk
            /\ Len(ChainOf(t).sigs) = 2
            /\ ChainOf(t).sigs[1] = SERVER_KEY
            /\ ChainOf(t).sigs[2] \in
                 {SIGNER_PUBLIC_KEY, AddressKey[ChainOf(t).address]}

(***************************************************************************)
(* C8: the consumer terminates exactly on the third consecutive empty      *)
(* receive, on its first run as well as after a processed message.         *)
(***************************************************************************)
C8_ExitOnThirdEmpty ==
    /\ exited => consecEmpty >= 3
    /\ consecEmpty >= 3 => exited

(***************************************************************************)
(* C9: a message without a body, with a body that does not parse or with   *)
(* no payload drops only that message: the consumer goes on polling (a     *)
(* receive is outstanding or another message is in process) until it       *)
(* terminates.                                                             *)
(***************************************************************************)
C9_DropKeepsPolling ==
    (\E t \in TaskIds : tasks[t].pc \in {"rejected", "threw"}) =>
        \/ exited
        \/ receives > 0
        \/ InFlightTasks # {}

(***************************************************************************)
(* C10: when the consumer process exits, the write of the run record       *)
(* {process: 'roundup', last} has completed.                               *)
(***************************************************************************)
C10_RunRecordWrittenAtExit == exited => runRecord = "written"

(***************************************************************************)
(* C11: commit is idempotent: when a from-signer message is processed a    *)
(* second time (redelivery), the write of Address.latestTransaction leaves *)
(* it equal to its value after the first processing, and the transactions  *)
(* collection holds exactly one row per hash.value of the envelope.        *)
(***************************************************************************)
Redelivered(t, u) ==
    /\ u < t
    /\ tasks[u].msg = tasks[t].msg
    /\ tasks[u].wroteTip

C11_IdempotentCommit ==
    [][/\ \A t \in TaskIds : \A u \in TaskIds :
            (WritesTip(t) /\ Redelivered(t, u)) =>
                latestTransaction'[ChainOf(t).address] = tasks[u].tip
       /\ \A t \in TaskIds : \A u \in TaskIds :
            (tasks'[t].wroteTip /\ Redelivered(t, u)) =>
                \A h \in TxHashes(ChainOf(t)) : rows'[h] <= 1]_vars

\* a message committed twice: both deliveries wrote the tip, the tip is the
\* one the first delivery left and each entry of the envelope has its row
C11_Witness ==
    \E t, u \in TaskIds :
        /\ Redelivered(t, u)
        /\ tasks[t].wroteTip
        /\ tasks[t].pc \in {"done", "caught"}
        /\ pendingUpserts = {}
        /\ latestTransaction[ChainOf(t).address] = tasks[u].tip
        /\ \A h \in TxHashes(ChainOf(t)) : rows[h] = 1

(***************************************************************************)
(* C12: for a given address the persisted chain entries form one linear    *)
(* chain: no payload.count occurs twice, the counts are contiguous from    *)
(* the genesis count, and every non-genesis entry's payload.previous is    *)
(* the hash.value of the entry with the preceding count.                   *)
(***************************************************************************)
EntriesOf(address) == {e \in chainEntries : e.payload.address = address}

C12_LinearChain ==
    /\ \A e, f \in EntriesOf(WorkerAddress) :
         e.payload.count = f.payload.count => e = f
    /\ \A e \in EntriesOf(WorkerAddress) :
         e.payload.count > GenesisPayload(WorkerAddress).count =>
            \E f \in EntriesOf(WorkerAddress) :
               /\ f.payload.count = e.payload.count - 1
               /\ e.payload.previous = f.hash.value

(***************************************************************************)
(* C13: the scheduler never has more than 10 workers in flight at the same *)
(* time, for any number of selected users.                                 *)
(***************************************************************************)
WorkersInFlight == NumberAt({"worker", "awaiting"})

C13_AtMostTenWorkers == WorkersInFlight <= ROUNDUP_CONCURRENCY

(***************************************************************************)
(* C14: the round-up runs at most once per day per user: a user whose      *)
(* latestRoundupDate is today is skipped by every run of the day without   *)
(* the worker being invoked, and no user gets a second envelope enqueued   *)
(* on the same day.                                                        *)
(***************************************************************************)
C14_OncePerDay ==
    \A u \in BagToSet(users) :
        /\ u.date = "today" => u.pc \in {"queued", "skipped"}
        /\ u.envelopes <= 1

(***************************************************************************)
(* C15: a user's latestRoundupDate is set to today only if that user's     *)
(* worker completed the enqueue; when the run of the user fails before     *)
(* (bank lookup, aggregator request, chain build, sign, queue send) it is  *)
(* left as it was, and the next run of the scheduler takes the user again. *)
(***************************************************************************)
C15_DateOnlyAfterEnqueue ==
    \A u \in BagToSet(users) :
        /\ u.date # u.date0 => (u.date = "today" /\ u.envelopes >= 1)
        /\ u.envelopes = 0 => u.date = u.date0

\* in a later run of the day: a user whose bank lookup failed and a user
\* whose worker failed before the enqueue have their date as it was, and the
\* second was given to the worker again
C15_Witness ==
    /\ runsLeft = 0
    /\ \E u \in BagToSet(users) :
         /\ u.kind = "noBank" /\ u.pc = "failed" /\ u.date = u.date0
    /\ \E u \in BagToSet(users) :
         /\ u.kind = "ok" /\ u.launches = MaxRuns /\ u.envelopes = 0
         /\ u.date = u.date0 /\ u.date # "today"

(***************************************************************************)
(* C16: a failure while processing one user (unknown pledge bank, active   *)
(* pledge without addresses or token for the bank type, worker error)      *)
(* never aborts the scheduler: the run does not reject and every other     *)
(* selected user is still processed.                                       *)
(***************************************************************************)
C16_FailureDoesNotAbort ==
    /\ mapState # "rejected"
    /\ mapState = "resolved" => UsersAt({"queued"}) = {}

(***************************************************************************)
(* C17: for every work item the worker signals ready exactly once, on      *)
(* success and on every failure: a finished item has sent ready once and   *)
(* no item sends it twice.                                                 *)
(***************************************************************************)
Finished(i) == items[i].pc \in {"done", "silent"}

C17_ReadyExactlyOnce ==
    \A i \in ItemIds :
        /\ items[i].ready <= 1
        /\ Finished(i) => items[i].ready = 1

(***************************************************************************)
(* C18: when the batch of eligible transactions of a work item is empty,   *)
(* the worker enqueues nothing on the to-signer queue and does not trigger *)
(* the signer.                                                             *)
(***************************************************************************)
Processed(i) == items[i].pc \notin {"idle", "requested", "receiving"}

C18_EmptyBatchNotEnqueued ==
    /\ \A i \in ItemIds :
         (Processed(i) /\ items[i].batch = <<>>) =>
            ~items[i].enqueued /\ ~items[i].triggered
    /\ \A k \in DOMAIN toSigner : toSigner[k].payload.transactions # <<>>

(***************************************************************************)
(* C19: no in-process state is shared by concurrently running work items:  *)
(* the response body parsed for a work item consists exactly of the chunks *)
(* of that item's response.                                                *)
(***************************************************************************)
C19_OwnResponseBody ==
    \A i \in ItemIds : Processed(i) => items[i].ownBody

(***************************************************************************)
(* C20: for a valid previous entry and a list T of eligible transactions   *)
(* the chain builder returns exactly |T| entries in input order; entry i   *)
(* (from 0) has payload.count = previous.payload.count + i + 1, the first  *)
(* entry's payload.previous is previous.hash.value and every later entry's *)
(* payload.previous is the hash.value of the entry before it.              *)
(***************************************************************************)
ValidPrevious(address, previous) ==
    /\ previous.payload.address = address
    /\ HasRequiredFields(previous.payload)
    /\ previous.hash.value = sha256(previous.payload)

ValidBuild ==
    /\ buildOutput # NoOutput
    /\ ValidPrevious(buildInput.address, buildInput.previous)
    /\ \A i \in DOMAIN buildInput.transactions :
         buildInput.transactions[i] \in EligibleTxs

C20_ChainBuilderLinks ==
    ValidBuild =>
        LET previous == buildInput.previous
            T == buildInput.transactions
            entries == buildOutput.entries
        IN /\ buildOutput.error = "none"
           /\ Len(entries) = Len(T)
           /\ \A i \in 1..Len(entries) :
                /\ entries[i].payload.reference = T[i].transactionId
                /\ entries[i].payload.count = previous.payload.count + i
                /\ entries[i].payload.previous =
                     IF i = 1 THEN previous.hash.value
                     ELSE entries[i - 1].hash.value
                /\ entries[i].hash.value = sha256(entries[i].payload)

\* a batch of two or more eligible transactions built on a stored entry that
\* is not the genesis
C20_Witness ==
    /\ ValidBuild
    /\ buildInput.previous.payload.count > 0
    /\ Len(buildInput.transactions) >= 2
    /\ Len(buildOutput.entries) = Len(buildInput.transactions)

(***************************************************************************)
(* C21: in the chain built from a valid previous entry each entry's        *)
(* payload.balance is the balance of the entry before it                   *)
(* (previous.payload.balance for the first) minus its own roundup, so the  *)
(* last entry's balance is previous.payload.balance minus the sum of the   *)
(* roundups of the batch.                                                  *)
(***************************************************************************)
RECURSIVE SumOfRoundups(_)
SumOfRoundups(entries) ==
    IF entries = <<>> THEN 0
    ELSE Head(entries).payload.roundup + SumOfRoundups(Tail(entries))

C21_BalanceIsRunningSum ==
    (ValidBuild /\ buildOutput.error = "none") =>
        LET previous == buildInput.previous
            entries == buildOutput.entries
        IN /\ \A i \in 1..Len(entries) :
                entries[i].payload.balance =
                    (IF i = 1 THEN previous.payload.balance
                     ELSE entries[i - 1].payload.balance)
                        - entries[i].payload.roundup
           /\ entries # <<>> =>
                entries[Len(entries)].payload.balance =
                    previous.payload.balance - SumOfRoundups(entries)

\* two entries with different roundups built on an entry whose balance is
\* not zero
C21_Witness ==
    /\ ValidBuild
    /\ buildInput.previous.payload.balance < 0
    /\ Len(buildOutput.entries) = 2
    /\ buildOutput.entries[1].payload.roundup
         # buildOutput.entries[2].payload.roundup

(***************************************************************************)
(* C22: the chain builder checks its previous entry in a fixed order and   *)
(* fails with the first check that is violated: address-mismatch when      *)
(* previous.payload.address is not the given address, else                 *)
(* invalid-previous-transaction when previous.payload lacks count,         *)
(* balance, currency or limit (also when the stored hash is wrong too),    *)
(* else previous-transaction-hash-mismatch when the hash recomputed from   *)
(* previous.payload is not previous.hash.value.                            *)
(***************************************************************************)
LacksRequiredField(payload) ==
    \/ payload.count = Undefined
    \/ payload.balance = Undefined
    \/ payload.currency = "undefined"
    \/ payload.limit = Undefined

C22_PreviousChecksInOrder ==
    buildOutput # NoOutput =>
        LET address == buildInput.address
            previous == buildInput.previous
            hashDiffers == previous.hash.value # sha256(previous.payload)
        IN IF previous.payload.address # address
           THEN buildOutput.error = "address-mismatch"
           ELSE IF LacksRequiredField(previous.payload)
                THEN buildOutput.error = "invalid-previous-transaction"
           ELSE IF hashDiffers
                THEN buildOutput.error = "previous-transaction-hash-mismatch"
           ELSE buildOutput.error \notin
                    {"address-mismatch", "invalid-previous-transaction",
                     "previous-transaction-hash-mismatch"}

\* a previous entry of the right address that lacks a field and whose stored
\* hash is wrong as well
C22_Witness ==
    /\ buildOutput # NoOutput
    /\ buildInput.previous.payload.address = buildInput.address
    /\ LacksRequiredField(buildInput.previous.payload)
    /\ buildInput.previous.hash.value = WrongHash
    /\ buildOutput.error = "invalid-previous-transaction"

(***************************************************************************)
(* C23: building one entry fails with invalid-transaction-input when the   *)
(* transaction is not an object, with invalid-transaction-amount when the  *)
(* amount is missing or not a number and with invalid-transaction-roundup  *)
(* when the roundup is missing or not a number; the amount is checked      *)
(* before the roundup, and a missing roundup is an error, it is not        *)
(* computed.                                                               *)
(***************************************************************************)
ExpectedError(transaction) ==
    CASE ~transaction.isObject -> "invalid-transaction-input"
      [] transaction.isObject /\ transaction.amount = Undefined ->
             "invalid-transaction-amount"
      [] transaction.isObject /\ transaction.amount # Undefined
            /\ transaction.roundup = Undefined ->
             "invalid-transaction-roundup"
      [] OTHER -> "none"

FirstBad(transactions) ==
    {k \in DOMAIN transactions :
        /\ ExpectedError(transactions[k]) # "none"
        /\ \A j \in 1..(k - 1) : ExpectedError(transactions[j]) = "none"}

C23_TransactionChecks ==
    (/\ buildOutput # NoOutput
     /\ ValidPrevious(buildInput.address, buildInput.previous)) =>
        LET T == buildInput.transactions
        IN IF FirstBad(T) = {} THEN buildOutput.error = "none"
           ELSE \A k \in FirstBad(T) :
                    /\ buildOutput.error = ExpectedError(T[k])
                    /\ buildOutput.entries = <<>>

\* a transaction object with neither amount nor roundup fails on the amount
C23_Witness ==
    /\ buildOutput # NoOutput
    /\ ValidPrevious(buildInput.address, buildInput.previous)
    /\ \E k \in FirstBad(buildInput.transactions) :
          /\ buildInput.transactions[k].isObject
          /\ buildInput.transactions[k].amount = Undefined
          /\ buildInput.transactions[k].roundup = Undefined
    /\ buildOutput.error = "invalid-transaction-amount"

(***************************************************************************)
(* C24: when the chain builder fails on a data-level error of a            *)
(* transaction of the batch, the run of that user is aborted with no state *)
(* change past the audit records: no chain entry of the batch is           *)
(* persisted, nothing is enqueued on the to-signer queue, the signer is    *)
(* not triggered and Address.latestTransaction does not move to an entry   *)
(* of the batch.                                                           *)
(***************************************************************************)
BatchIds(i) == {items[i].batch[k].transactionId : k \in DOMAIN items[i].batch}

\* transactionChain.create was called for item i with a batch that holds a
\* transaction it refuses
DataFailed(i) ==
    /\ items[i].previous # NoPrevious
    /\ FirstBad(items[i].batch) # {}

C24_DataErrorAborts ==
    \A i \in ItemIds :
        DataFailed(i) =>
            /\ items[i].pc = "done"
            /\ ~items[i].enqueued
            /\ ~items[i].triggered
            /\ \A e \in chainEntries : e.payload.reference \notin BatchIds(i)
            /\ \A k \in DOMAIN toSigner :
                 \A n \in DOMAIN toSigner[k].payload.transactions :
                    toSigner[k].payload.transactions[n].payload.reference
                        \notin BatchIds(i)
            /\ getTransaction(addressTip).payload.reference \notin BatchIds(i)

\* the builder refused the batch of a run whose audit records are written
C24_Witness ==
    \E i \in ItemIds :
        /\ DataFailed(i)
        /\ items[i].ready = 1
        /\ \A id \in BatchIds(i) :
              \E record \in BagToSet(plaidRecords) : record.transactionId = id

(***************************************************************************)
(* C25: every envelope the worker places on the to-signer queue carries    *)
(* exactly one signature, whose header has alg ed25519 and kid equal to    *)
(* the server kid, made over the envelope's hash.value.                    *)
(***************************************************************************)
C25_OneServerSignature ==
    \A k \in DOMAIN toSigner :
        /\ Len(toSigner[k].signatures) = 1
        /\ toSigner[k].signatures[1].header =
              [alg |-> "ed25519", kid |-> SERVER_KID]
        /\ toSigner[k].signatures[1].signature =
              <<SERVER_KEY, toSigner[k].hash.value>>

\* two envelopes wait on the to-signer queue, one of them with entries
C25_Witness ==
    /\ Len(toSigner) = 2
    /\ \E k \in DOMAIN toSigner : toSigner[k].payload.transactions # <<>>

(***************************************************************************)
(* C26: within one worker run the previous tip is fetched before the chain *)
(* is built, the envelope is signed before it is enqueued, and the         *)
(* external signer is triggered only after the enqueue on the to-signer    *)
(* queue succeeded; if the enqueue fails the signer is never triggered.    *)
(***************************************************************************)
BeforeBuild(i) ==
    items[i].pc \in {"idle", "requested", "receiving", "getAddress",
                     "getTransaction"}

C26_StepsInOrder ==
    /\ \A i \in ItemIds :
         /\ BeforeBuild(i) =>
               /\ items[i].previous = NoPrevious
               /\ ~items[i].enqueued
               /\ ~items[i].triggered
         /\ (items[i].pc \in {"sendToQueue", "sendPostToAws"}
                \/ items[i].enqueued) =>
               /\ items[i].previous # NoPrevious
               /\ ChainFor(i).error = "none"
               /\ \A k \in DOMAIN ChainFor(i).entries :
                     k = 1 => ChainFor(i).entries[k].payload.previous
                                 = items[i].previous.hash.value
         /\ items[i].pc = "sendToQueue" =>
               ~items[i].enqueued /\ ~items[i].triggered
         /\ items[i].triggered => items[i].enqueued
    /\ \A k \in DOMAIN toSigner : toSigner[k].signatures # <<>>

\* one run has enqueued and triggered the signer, the enqueue of another
\* run with a chain has failed
C26_Witness ==
    \E i, j \in ItemIds :
        /\ items[i].enqueued /\ items[i].triggered
        /\ items[j].pc = "done"
        /\ items[j].previous # NoPrevious
        /\ items[j].batch # <<>>
        /\ ChainFor(j).error = "none"
        /\ ~items[j].enqueued /\ ~items[j].triggered

(***************************************************************************)
(* C27: every hash the worker computes for an envelope is the hash of the  *)
(* canonical (sorted-key) serialization of its payload: two envelopes      *)
(* whose payloads have the same keys and values in a different key order   *)
(* get the same hash.value.                                                *)
(***************************************************************************)
SamePairs(object1, object2) ==
    {object1[i] : i \in DOMAIN object1} = {object2[i] : i \in DOMAIN object2}

Dispatched == buildOutput # NoOutput /\ ~buildOutput.skip

FirstDefinedGte ==
    IF buildInput.options.gte # Absent THEN buildInput.options.gte
    ELSE IF buildInput.latestRoundupDate # Absent
         THEN buildInput.latestRoundupDate
    ELSE FirstOfMonth

C28_GteFirstDefined ==
    Dispatched =>
        /\ buildOutput.gte # Absent
        /\ buildOutput.gte = FirstDefinedGte

(***************************************************************************)
(* C29: every date bound the scheduler passes to a worker is strictly      *)
(* earlier than today: for any gte and lte of the caller, also ones equal  *)
(* to or later than today, the dispatched gte and any dispatched lte are   *)
(* dates before today.                                                     *)
(***************************************************************************)
BeforeToday(date) == date \in Days /\ date < buildInput.today

C29_BoundsBeforeToday ==
    Dispatched =>
        /\ buildOutput.gte # Absent => BeforeToday(buildOutput.gte)
        /\ buildOutput.lte # Absent => BeforeToday(buildOutput.lte)

(***************************************************************************)
(* C30: after any sequence of worker runs, also runs that return the same  *)
(* raw transaction again, there is at most one Plaid-transaction record    *)
(* per transactionId, and an audit write that fails does not abort the     *)
(* chain build of the run.                                                 *)
(***************************************************************************)
RecordsOf(collection, id) ==
    BagCardinality([record \in {r \in BagToSet(collection) :
                                   r.transactionId = id}
                       |-> CopiesIn(record, collection)])

AtMostOneRecord ==
    \A record \in BagToSet(plaidRecords) :
        RecordsOf(plaidRecords, record.transactionId) <= 1

\* the step of item i in which processData saves a batch of which a
\* transaction has its record already
AuditWriteFails(i) ==
    /\ items[i].pc = "receiving"
    /\ items'[i].pc # "receiving"
    /\ items'[i].batch # <<>>
    /\ \E k \in DOMAIN items'[i].batch :
          RecordsOf(plaidRecords, items'[i].batch[k].transactionId) > 0

C30_OneAuditRecord ==
    /\ []AtMostOneRecord
    /\ [][\A i \in ItemIds :
            AuditWriteFails(i) => items'[i].pc = "getAddress"]_vars

\* two runs got the same transactions, the records are there once and the
\* run that came second has enqueued its envelope
C30_Witness ==
    \E i, j \in ItemIds :
        /\ i < j
        /\ items[i].batch # <<>>
        /\ items[i].batch = items[j].batch
        /\ items[i].pc \notin {"idle", "requested", "receiving"}
        /\ items[j].enqueued
        /\ \A id \in BatchIds(j) : RecordsOf(plaidRecords, id) = 1

\* Math.ceil of an amount in cents: the least whole amount not below it
ceil(amount) ==
    CHOOSE w \in {100 * k : k \in -3..4} : w >= amount /\ w - 100 < amount

RoundedUp == buildOutput # NoOutput

\* C31: roundup(amount), in whole cents, is 0 for every amount <= 0 (a
\* negative amount with a fractional part included), 1.00 for a positive whole
\* amount and ceil(amount) - amount for a positive amount with a fractional
\* part; the result always lies in 0..1.00 and, for a positive amount,
\* amount + roundup is a whole amount
C31_RoundupValues ==
    RoundedUp =>
        LET amount == buildInput.amount
            value == buildOutput.roundup
        IN /\ amount <= 0 => value = 0
           /\ (amount > 0 /\ amount % 100 = 0) => value = 100
           /\ (amount > 0 /\ amount % 100 # 0) => value = ceil(amount) - amount
           /\ value \in 0..100
           /\ amount > 0 => (amount + value) % 100 = 0

\* a positive whole amount has been rounded up
C31_Witness ==
    /\ RoundedUp
    /\ buildInput.amount = 200
    /\ buildOutput.roundup = 100
BuilderErrors ==
    {"address-mismatch", "invalid-previous-transaction",
     "previous-transaction-hash-mismatch", "invalid-transaction-input",
     "invalid-transaction-amount", "invalid-transaction-roundup"}

\* C35: every entry the chain builder produces carries the address, the
\* currency and the limit of previous.payload unchanged and an empty
\* signatures list, and the builder never rejects a batch because its running
\* balance falls below the limit: a valid previous entry and eligible
\* transactions always give the whole chain, and every failure is one of the
\* six errors of the builder
C35_CarriesForwardIgnoresLimit ==
    buildOutput # NoOutput =>
        LET previous == buildInput.previous
            entries == buildOutput.entries
        IN /\ \A i \in 1..Len(entries) :
                /\ entries[i].payload.address = previous.payload.address
                /\ entries[i].payload.currency = previous.payload.currency
                /\ entries[i].payload.limit = previous.payload.limit
                /\ entries[i].signatures = <<>>
           /\ buildOutput.error \in BuilderErrors \cup {"none"}
           /\ ValidBuild =>
                /\ buildOutput.error = "none"
                /\ Len(entries) = Len(buildInput.transactions)

\* a chain of two entries whose second balance lies below the limit
C35_Witness ==
    /\ ValidBuild
    /\ Len(buildOutput.entries) = 2
    /\ buildOutput.entries[1].payload.balance
            >= buildInput.previous.payload.limit
    /\ buildOutput.entries[2].payload.balance
            < buildInput.previous.payload.limit
    /\ buildOutput.entries[2].payload.limit = -100
\* the envelope of task t names an address no Address document has
AddressMissing(t) ==
    /\ BodyKind(tasks[t].msg) = "json"
    /\ getAddress(ChainOf(t).address) = NoAddress

\* the step in which getAddress answers task t
AddressAnswered(t) ==
    /\ t \in TaskIds
    /\ tasks[t].pc = "getAddress"
    /\ tasks'[t].pc # "getAddress"

\* C32: when the consumer finds no Address for envelope.payload.address it
\* drops the message: in the step that handles the answer no chain entry is
\* upserted, latestTransaction is not changed, deleteMessage is not called
\* and the message stays on the queue, and the next receive is issued; the
\* message is never taken up again by that delivery
C32_MissingAddressDrops ==
    /\ [](\A t \in TaskIds :
            AddressMissing(t) =>
                /\ tasks[t].pc \in {"getAddress", "caught"}
                /\ ~tasks[t].wroteTip
                /\ ~tasks[t].deleteCalled)
    /\ [][\A t \in 1..MaxTasks :
            (AddressAnswered(t) /\ AddressMissing(t)) =>
                /\ tasks'[t].pc = "caught"
                /\ pendingUpserts' = pendingUpserts
                /\ rows' = rows
                /\ latestTransaction' = latestTransaction
                /\ queue' = queue
                /\ receives' = receives + 1]_vars

\* an envelope for an unknown address has been dropped next to one that was
\* committed, and its receive is outstanding
C32_Witness ==
    \E t, u \in TaskIds :
        /\ AddressMissing(t)
        /\ tasks[t].pc = "caught"
        /\ tasks[t].polls = 1
        /\ tasks[t].msg \in queue
        /\ tasks[u].wroteTip
        /\ receives >= 1
        /\ ~exited
\* task t has an envelope whose outer signature verified, and the callback of
\* that verification has run
OuterVerified(t) ==
    /\ BodyKind(tasks[t].msg) = "json"
    /\ ~AddressMissing(t)
    /\ verifySignature(ChainOf(t), SIGNER_PUBLIC_KEY)
    /\ tasks[t].pc \notin {"getAddress", "verifySign"}

UpsertedHashes ==
    pendingUpserts \cup {h \in HashValues \ {GenesisHash} : rows[h] > 0}

\* C33: the consumer upserts chain entries only after the outer signature
\* verified: every upsert that was issued or has landed is of an entry of an
\* envelope whose outer verification succeeded before; a delivery whose outer
\* verification fails ends in the catch, so it creates and modifies no row
C33_UpsertOnlyAfterOuterVerified ==
    /\ \A h \in UpsertedHashes :
         \E t \in TaskIds : OuterVerified(t) /\ h \in TxHashes(ChainOf(t))
    /\ \A t \in TaskIds :
         (BodyKind(tasks[t].msg) = "json" /\ OuterFails(ChainOf(t))) =>
             tasks[t].pc \in {"getAddress", "verifySign", "caught"}

\* an envelope with a bad outer signature has been dropped in the catch, and
\* every entry of an envelope whose outer signature verified has its row
C33_Witness ==
    \E t, u \in TaskIds :
        /\ ~AddressMissing(t)
        /\ OuterFails(ChainOf(t))
        /\ tasks[t].pc = "caught"
        /\ OuterVerified(u)
        /\ \A h \in TxHashes(ChainOf(u)) : rows[h] = 1
        /\ pendingUpserts = {}
\* an envelope as the chain builder makes it: n >= 1 entries that count on
\* from the previous entry
BuilderProduced(chain) ==
    /\ Len(chain.transactions) >= 1
    /\ \A i \in 1..Len(chain.transactions) :
         chain.transactions[i].count = chain.prevCount + i

HasLatestCount(chain) ==
    \E i \in 1..Len(chain.transactions) :
        chain.transactions[i].count = chain.prevCount + Len(chain.transactions)

\* a step of the delivery t
Moves(t) == t \in TaskIds /\ tasks'[t].pc # tasks[t].pc

\* C34: the step that commits an envelope of the chain builder with n >= 1
\* entries leaves Address.latestTransaction equal to the hash.value of the
\* last entry, the one whose payload.count is previous.count + n; an envelope
\* none of whose entries has that count never writes latestTransaction, and
\* no step of its delivery changes it
C34_TipIsLastEntry ==
    /\ [](\A t \in TaskIds :
            (BodyKind(tasks[t].msg) = "json" /\ ~HasLatestCount(ChainOf(t)))
                => ~tasks[t].wroteTip)
    /\ [][\A t \in 1..MaxTasks :
            /\ (WritesTip(t) /\ BuilderProduced(ChainOf(t))) =>
                 LET chain == ChainOf(t)
                     last == chain.transactions[Len(chain.transactions)]
                 IN /\ latestTransaction'[chain.address] = last.hash
                    /\ last.count = chain.prevCount + Len(chain.transactions)
            /\ (Moves(t) /\ BodyKind(tasks[t].msg) = "json"
                    /\ ~HasLatestCount(ChainOf(t))) =>
                 latestTransaction' = latestTransaction]_vars

\* a committed envelope of two entries has left the hash of its second entry
\* in latestTransaction, and an envelope without an entry of the latest
\* count has been deleted without a write of the tip
C34_Witness ==
    \E t, u \in TaskIds :
        /\ BuilderProduced(ChainOf(t))
        /\ Len(ChainOf(t).transactions) = 2
        /\ tasks[t].wroteTip
        /\ latestTransaction[ChainOf(t).address] = ChainOf(t).transactions[2].hash
        /\ BodyKind(tasks[u].msg) = "json"
        /\ ~HasLatestCount(ChainOf(u))
        /\ tasks[u].pc = "done"
\* C39: the consumer never terminates the process while a message is still
\* being committed: when the process has exited, no message that a receive
\* returned is between its getAddress and the answer of its deleteMessage
C39_NoExitWhileCommitting == exited => InFlightTasks = {}
\* every user the invocation selected has been skipped, has failed or has a
\* worker that ended, and the promise of P.map is settled
AllUsersCompleted ==
    /\ mapState \in {"resolved", "rejected"}
    /\ UsersAt({"queued", "bank", "awaiting", "worker"}) = {}

\* C36: when all selected users of a scheduler invocation have completed,
\* the scheduler writes the run record {process: 'roundup', last: now}
\* (the write is issued in the end), and it writes it only after the last
\* user has completed
C36_RunRecordAfterAllUsers ==
    /\ AllUsersCompleted ~> (runRecord # "none")
    /\ [][runRecord' # runRecord => AllUsersCompleted]_vars
\* the work item names an address no Address document has
AddressIsMissing(i) == AddressDocs(items[i].personData.address) = <<>>

\* Address.latestTransaction names no stored entry
TipDangling == getTransaction(addressTip) = NoPrevious

\* C37: the worker enqueues an envelope only when a previous chain tip was
\* found for the address: a run whose Address is missing ends at
\* getPreviousChain, and while Address.latestTransaction names no stored
\* entry no run persists a chain entry or enqueues anything; every envelope
\* that is enqueued is built on a stored entry of a known address
C37_EnqueueOnlyWithTip ==
    /\ \A i \in ItemIds :
         /\ items[i].enqueued =>
               /\ ~AddressIsMissing(i)
               /\ items[i].previous # NoPrevious
               /\ items[i].previous \in chainEntries
         /\ AddressIsMissing(i) =>
               /\ items[i].pc \in {"idle", "requested", "receiving",
                                    "getAddress", "done", "silent"}
               /\ items[i].previous = NoPrevious
               /\ ~items[i].enqueued
               /\ ~items[i].triggered
    /\ \A e \in chainEntries : e.payload.address # UnknownAddress
    /\ \A k \in DOMAIN toSigner :
         /\ toSigner[k].payload.address # UnknownAddress
         /\ toSigner[k].payload.previous.hash # NoPrevious.hash
    /\ TipDangling =>
         /\ chainEntries = {GenesisEntry(WorkerAddress)}
         /\ toSigner = <<>>
         /\ \A i \in ItemIds : ~items[i].enqueued /\ ~items[i].triggered

\* a run for an unknown address and a run on a dangling tip have both failed
\* with their audit records written, and nothing was persisted or enqueued
C37_Witness ==
    /\ TipDangling
    /\ \E i, j \in ItemIds :
         /\ AddressIsMissing(i)
         /\ items[i].pc = "done"
         /\ items[i].ready = 1
         /\ ~AddressIsMissing(j)
         /\ items[j].batch # <<>>
         /\ items[j].pc = "done"
         /\ items[j].ready = 1
         /\ items[j].previous = NoPrevious
    /\ plaidRecords # EmptyBag
\* C38: across the worker runs that the scheduler starts on successive
\* days, each raw transaction id is the payload.reference of at most one
\* persisted chain entry of an address: a transaction that an earlier run
\* rounded up is not rounded up again when a later run gets it again
C38_ReferenceOnce ==
    \A e, f \in chainEntries :
        (/\ e.payload.address = f.payload.address
         /\ e.payload.reference = f.payload.reference) => e = f
====
